---- MODULE Spec2Model ----
(***************************************************************************)
(* Model of src/app.py: the Streamlit dashboard that renders workforce     *)
(* metrics (HC, FTE, fulfillment) from per-quarter JSON snapshots.         *)
(*                                                                         *)
(* The state is the content of the three JSON documents, the sidebar       *)
(* widgets, and the page the last run of main() rendered.  Every sidebar   *)
(* interaction reruns main() from top to bottom, so each action sets one   *)
(* widget and recomputes the whole page.                                   *)
(*                                                                         *)
(* Numbers are exact fractions <<n, d>> (the inputs are integers; the IEEE *)
(* rounding of Python floats is not modelled).  NaN is <<0, 0>>.           *)
(* Text order is Python's: lexicographic on code points.                   *)
(***************************************************************************)
EXTENDS Integers, Sequences, FiniteSets, TLC

VARIABLES hc_data, fte_data,   \* billable_hc_metrics.json, billable_fte_metrics.json
          fulfillment_exists,  \* whether fulfillment_metrics.json exists
          fulfillment_data,    \* its content, <<>> when it does not exist
          unreadable,          \* the files load_data raises on: "hc", "fte", "fulfillment"
          metric_type, selected_quarter, selected_business,  \* the sidebar
          page                 \* what the last run of main() rendered

docs == <<hc_data, fte_data, fulfillment_exists, fulfillment_data, unreadable>>

vars == <<hc_data, fte_data, fulfillment_exists, fulfillment_data, unreadable,
          metric_type, selected_quarter, selected_business, page>>

-----------------------------------------------------------------------------
(* Bounds of the model *)

\* longest snapshot sequence of a document
MaxSnapshots == 2

\* largest per-business figure that varies in a snapshot
MaxVal == 1

-----------------------------------------------------------------------------
(* Assignment *)

\* `name = value` followed by Then(name): the value is computed once
Bind(value, Then(_)) == CHOOSE result \in {Then(name) : name \in {value}} : TRUE

-----------------------------------------------------------------------------
(* Text: code points and Python's string order *)

\* fiscal_year and quarter values of the documents
FiscalYears == {"FY25", "FY26"}
Quarters == {"Q1", "Q2"}

\* f"{quarter_data['fiscal_year']} {quarter_data['quarter']}"
QuarterLabel(quarter_data) ==
  quarter_data.fiscal_year \o " " \o quarter_data.quarter

\* code points of the words the model's strings are made of (ASCII)
Chars ==
  [s \in {"BET NA", "HIL", "GROWTH MARKETS", "PLATINUM AC-CITI",
          "PLATINUM AC-JPMC", "TIME", "FY25", "FY26", "Q1", "Q2", " "} |->
     CASE s = "BET NA"           -> <<66, 69, 84, 32, 78, 65>>
       [] s = "HIL"              -> <<72, 73, 76>>
       [] s = "GROWTH MARKETS"   -> <<71, 82, 79, 87, 84, 72, 32, 77, 65, 82, 75, 69, 84, 83>>
       [] s = "PLATINUM AC-CITI" -> <<80, 76, 65, 84, 73, 78, 85, 77, 32, 65, 67, 45, 67, 73, 84, 73>>
       [] s = "PLATINUM AC-JPMC" -> <<80, 76, 65, 84, 73, 78, 85, 77, 32, 65, 67, 45, 74, 80, 77, 67>>
       [] s = "TIME"             -> <<84, 73, 77, 69>>
       [] s = "FY25"             -> <<70, 89, 50, 53>>
       [] s = "FY26"             -> <<70, 89, 50, 54>>
       [] s = "Q1"               -> <<81, 49>>
       [] s = "Q2"               -> <<81, 50>>
       [] s = " "                -> <<32>>]

\* code points of every business name and quarter label
CodePointTable ==
  [s \in {"BET NA", "HIL", "GROWTH MARKETS", "PLATINUM AC-CITI", "PLATINUM AC-JPMC", "TIME"}
         \cup {fy \o " " \o q : fy \in FiscalYears, q \in Quarters} |->
     IF s \in DOMAIN Chars THEN Chars[s]
     ELSE LET p == CHOOSE p \in FiscalYears \X Quarters : p[1] \o " " \o p[2] = s
          IN  Chars[p[1]] \o Chars[" "] \o Chars[p[2]]]

CodePoints(s) == CodePointTable[s]

\* lexicographic order on code point sequences: a and b agree before some
\* position k, where a has ended and b has not, or a's code point is smaller
SeqLess(a, b) ==
  \E k \in 1..Len(b) :
    /\ \A i \in 1..(k - 1) : i <= Len(a) /\ a[i] = b[i]
    /\ k > Len(a) \/ a[k] < b[k]

\* Python's str.__lt__
StrLess(s, t) == SeqLess(CodePoints(s), CodePoints(t))

\* the number of business names and quarter labels below s in Python's string order
LabelRank ==
  [s \in DOMAIN CodePointTable |->
     Cardinality({t \in DOMAIN CodePointTable : StrLess(t, s)})]

\* the labels of set S in ascending order (the order of a pandas index after unstack)
SortedLabels(S) ==
  Bind([x \in S |-> Cardinality({y \in S : LabelRank[y] < LabelRank[x]})], LAMBDA smaller :
    [i \in 1..Cardinality(DOMAIN smaller) |-> CHOOSE x \in DOMAIN smaller : smaller[x] = i - 1])

\* the elements of a sequence
Range(s) == {s[i] : i \in DOMAIN s}

-----------------------------------------------------------------------------
(* Numbers *)

(* A Python number is the fraction <<n, d>> in lowest terms with d >= 1;   *)
(* NaN is <<0, 0>>.                                                        *)
Num(n) == <<n, 1>>

Zero == Num(0)

NaN == <<0, 0>>

IsNaN(x) == x[2] = 0

RECURSIVE GCD(_, _)
GCD(a, b) == IF b = 0 THEN a ELSE Bind(a % b, LAMBDA r : GCD(b, r))

Abs(n) == IF n < 0 THEN -n ELSE n

\* the number n / d, d > 0, in lowest terms
Frac(n, d) ==
  IF d = 1 THEN <<n, 1>>
  ELSE Bind(GCD(Abs(n), d), LAMBDA g : <<n \div g, d \div g>>)

\* x + y, x - y, x * y of Python numbers; NaN propagates
Add(x, y) ==
  IF IsNaN(x) \/ IsNaN(y) THEN NaN
  ELSE Frac(x[1] * y[2] + y[1] * x[2], x[2] * y[2])

Sub(x, y) ==
  IF IsNaN(x) \/ IsNaN(y) THEN NaN
  ELSE Frac(x[1] * y[2] - y[1] * x[2], x[2] * y[2])

Mul(x, y) ==
  IF IsNaN(x) \/ IsNaN(y) THEN NaN
  ELSE Frac(x[1] * y[1], x[2] * y[2])

\* x / y for y > 0
Div(x, y) == Frac(x[1] * y[2], x[2] * y[1])

\* x > 0 (False for NaN)
Positive(x) == x[1] > 0 /\ x[2] > 0

\* int(x): truncation toward zero
Trunc(x) ==
  IF x[1] >= 0 THEN Num(x[1] \div x[2]) ELSE Num(-((-x[1]) \div x[2]))

RECURSIVE SumUpTo(_, _)
\* the sum of the first n of the values, added from the left
SumUpTo(values, n) ==
  IF n = 0 THEN Zero
  ELSE Bind(SumUpTo(values, n - 1), LAMBDA partial : Add(partial, values[n]))

\* sum() of a list of numbers
SumSeq(s) == Bind(s, LAMBDA values : SumUpTo(values, Len(values)))

\* a sum that is the first number of the list
FirstOnly(s) == IF Len(s) = 0 THEN Zero ELSE s[1]

\* Series.sum(): NaN cells are skipped
SumSkipNaN(s) == SumSeq(SelectSeq(s, LAMBDA x : ~IsNaN(x)))

\* part / whole * 100 without the `if whole > 0` test: not a number when whole is 0
UnguardedPercentage(part, whole) ==
  IF whole[1] = 0 THEN NaN ELSE Mul(Div(part, whole), Num(100))

\* (part / whole * 100) if whole > 0 else 0
Percentage(part, whole) ==
  IF Positive(whole) THEN Mul(Div(part, whole), Num(100)) ELSE Zero

-----------------------------------------------------------------------------
(* The input documents *)

\* businesses = ['BET NA', 'HIL', 'GROWTH MARKETS', ...]: the fixed catalog
businesses ==
  <<"BET NA", "HIL", "GROWTH MARKETS", "PLATINUM AC-CITI", "PLATINUM AC-JPMC", "TIME">>

Businesses == Range(businesses)

CatalogIndex(b) == CHOOSE i \in DOMAIN businesses : businesses[i] = b

\* the metric key of a family: 'total_billable_hc', 'total_billable_fte', ...
MetricKey(base, metric_key) == base \o "_" \o metric_key

\* sum of the values of a by_business map, whose keys are in catalog order
MapTotal(m) ==
  Bind(SelectSeq(businesses, LAMBDA b : b \in DOMAIN m), LAMBDA keys :
    SumSeq([i \in DOMAIN keys |-> m[keys[i]]]))

(* One HC or FTE snapshot of u units: business b has u * (its catalog      *)
(* position) onsite and 2 * u offshore, of which u onsite and 2 * u        *)
(* offshore are KPO; absent are the businesses left out of every           *)
(* by_business map.                                                        *)
WorkforceSnapshot(metric_key, fy, q, u, absent) ==
  LET present  == Businesses \ absent
      v        == u
      k        == 2 * u
      onsite   == [b \in present |-> Num(v * CatalogIndex(b))]
      offshore == [b \in present |-> Num(k)]
      total    == [b \in present |-> Add(onsite[b], offshore[b])]
      K(base)  == MetricKey(base, metric_key)
  IN  [fiscal_year |-> fy, quarter |-> q, extraction_date |-> fy \o " " \o q,
       metrics |->
         (K("total_billable")    :> [total |-> MapTotal(total), by_business |-> total]) @@
         (K("total_kpo")         :> [total |-> Num(k + v)]) @@
         (K("total_non_kpo")     :> [total |-> Sub(MapTotal(total), Num(k + v))]) @@
         (K("total_onsite")      :> [total |-> MapTotal(onsite), by_business |-> onsite]) @@
         (K("onsite_kpo")        :> [total |-> Num(v)]) @@
         (K("onsite_non_kpo")    :> [total |-> Sub(MapTotal(onsite), Num(v))]) @@
         (K("total_offshore")    :> [total |-> MapTotal(offshore), by_business |-> offshore]) @@
         (K("offshore_kpo")      :> [total |-> Num(k)]) @@
         (K("offshore_non_kpo")  :> [total |-> Sub(MapTotal(offshore), Num(k))])]

(* One fulfillment snapshot.  v is HIL's onsite and open demand count;     *)
(* with has_kpo there is a kpo_demands block, of kpo filled demands.  The  *)
(* open demands of a business are all onsite, the filled ones all offshore, *)
(* as the filled_by_business / open_by_business maps of the location       *)
(* blocks say.                                                             *)
FulfillmentSnapshot(fy, q, v, has_kpo, kpo, absent) ==
  LET present  == Businesses \ absent
      onsite   == [b \in present |-> Num(IF b = "HIL" THEN v ELSE 1)]
      offshore == [b \in present |-> Num(2)]
      total    == [b \in present |-> Add(onsite[b], offshore[b])]
      open     == [b \in present |-> Num(IF b = "HIL" THEN v ELSE 1)]
      filled   == [b \in present |-> Sub(total[b], open[b])]
      \* the document's rates are whole percents
      rate     == [b \in present |-> Trunc(Percentage(filled[b], total[b]))]
      base     ==
         ("total_demands"     :> [total |-> MapTotal(total), by_business |-> total]) @@
         ("filled_demands"    :> [total |-> MapTotal(filled), by_business |-> filled]) @@
         ("open_demands"      :> [total |-> MapTotal(open), by_business |-> open]) @@
         ("cancelled_demands" :> [total |-> Num(1)]) @@
         ("expired_demands"   :> [total |-> Zero]) @@
         ("fulfillment_rate"  :> [overall |-> Trunc(Percentage(MapTotal(filled), MapTotal(total))),
                                  by_business |-> rate]) @@
         ("onsite_demands"    :> [total |-> MapTotal(onsite), by_business |-> onsite,
                                  filled_by_business |-> [b \in present |-> Zero],
                                  open_by_business   |-> open]) @@
         ("offshore_demands"  :> [total |-> MapTotal(offshore), by_business |-> offshore,
                                  filled_by_business |-> filled,
                                  open_by_business   |-> [b \in present |-> Zero]])
  IN  [fiscal_year |-> fy, quarter |-> q, extraction_date |-> fy \o " " \o q,
       metrics |->
         IF ~has_kpo THEN base
         ELSE base @@ ("kpo_demands" :> [total |-> Num(3 * kpo), filled |-> Num(kpo), open |-> Num(2 * kpo)])]

-----------------------------------------------------------------------------
(* Exceptions: the result of a call is the value it returns or the        *)
(* exception it raises                                                     *)

Return(v) == [raised |-> "none", value |-> v]
Raise(e) == [raised |-> e]

KeyError == Raise("KeyError")
ValueError == Raise("ValueError")

Raised(result) == result.raised # "none"

\* quarter_data['metrics'][key][sub] can be read
HasBlock(quarter_data, key, sub) ==
  /\ "metrics" \in DOMAIN quarter_data
  /\ key \in DOMAIN quarter_data.metrics
  /\ sub \in DOMAIN quarter_data.metrics[key]

\* quarter_data['metrics'][key]['by_business'][business] can be read for the whole catalog
HasAllBusinesses(quarter_data, key, sub) ==
  /\ HasBlock(quarter_data, key, sub)
  /\ \A b \in Businesses : b \in DOMAIN quarter_data.metrics[key][sub]

\* dict.get(key, default)
Get(d, key, default) == IF key \in DOMAIN d THEN d[key] ELSE default

-----------------------------------------------------------------------------
(* Flat records: a DataFrame is the sequence of its rows *)

NumBusinesses == Len(businesses)

\* the snapshot and the business of the r-th record of a by-business frame
RecordSnapshot(r) == ((r - 1) \div NumBusinesses) + 1
RecordBusiness(r) == businesses[((r - 1) % NumBusinesses) + 1]

\* the by-business frame read from block `key` of every snapshot
ByBusinessFrame(data, key) ==
  IF \E i \in DOMAIN data : ~HasAllBusinesses(data[i], key, "by_business")
  THEN KeyError
  ELSE Return([r \in 1..(Len(data) * NumBusinesses) |->
          [Quarter  |-> QuarterLabel(data[RecordSnapshot(r)]),
           Business |-> RecordBusiness(r),
           Total    |-> data[RecordSnapshot(r)].metrics[key].by_business[RecordBusiness(r)]]])

create_business_dataframe(data, metric_key) ==
  ByBusinessFrame(data, IF metric_key = "hc" THEN "total_billable_hc"
                                              ELSE "total_billable_fte")

\* a location frame that reads the onsite block unless the location is 'offshore'
LocationFrameOnsiteByDefault(data, metric_key, location) ==
  ByBusinessFrame(data,
    IF metric_key = "hc"
    THEN (IF location = "offshore" THEN "total_offshore_hc" ELSE "total_onsite_hc")
    ELSE (IF location = "offshore" THEN "total_offshore_fte" ELSE "total_onsite_fte"))

create_location_business_dataframe(data, metric_key, location) ==
  ByBusinessFrame(data,
    IF metric_key = "hc"
    THEN (IF location = "onsite" THEN "total_onsite_hc" ELSE "total_offshore_hc")
    ELSE (IF location = "onsite" THEN "total_onsite_fte" ELSE "total_offshore_fte"))

create_fulfillment_business_dataframe(data) ==
  IF \E i \in DOMAIN data :
       \E key \in {"total_demands", "filled_demands", "open_demands", "fulfillment_rate"} :
         ~HasAllBusinesses(data[i], key, "by_business")
  THEN KeyError
  ELSE Return([r \in 1..(Len(data) * NumBusinesses) |->
          LET metrics  == data[RecordSnapshot(r)].metrics
              business == RecordBusiness(r)
          IN  [Quarter  |-> QuarterLabel(data[RecordSnapshot(r)]),
               Business |-> business,
               Total    |-> metrics["total_demands"].by_business[business],
               Filled   |-> metrics["filled_demands"].by_business[business],
               Open     |-> metrics["open_demands"].by_business[business],
               Fulfillment_Rate |-> metrics["fulfillment_rate"].by_business[business]]])

\* a share rounded to the nearest count, a half upwards
RoundedLocationShare(business_count, total_demands, business_total) ==
  IF Positive(business_total)
  THEN Trunc(Add(Mul(business_count, Div(total_demands, business_total)), Frac(1, 2)))
  ELSE Zero

\* int(business_count * (total_demands / business_total)) if business_total > 0 else 0
LocationShare(business_count, total_demands, business_total) ==
  IF Positive(business_total)
  THEN Trunc(Mul(business_count, Div(total_demands, business_total)))
  ELSE Zero

create_fulfillment_location_business_dataframe(data, location) ==
  LET location_key == IF location = "onsite" THEN "onsite_demands" ELSE "offshore_demands"
  IN
  IF \E i \in DOMAIN data :
       \E key \in {location_key, "total_demands", "filled_demands", "open_demands"} :
         ~HasAllBusinesses(data[i], key, "by_business")
  THEN KeyError
  ELSE Return([r \in 1..(Len(data) * NumBusinesses) |->
          LET metrics  == data[RecordSnapshot(r)].metrics
              business == RecordBusiness(r)
              total_demands   == metrics[location_key].by_business[business]
              business_total  == metrics["total_demands"].by_business[business]
              business_filled == metrics["filled_demands"].by_business[business]
              business_open   == metrics["open_demands"].by_business[business]
              location_filled == LocationShare(business_filled, total_demands, business_total)
              location_open   == LocationShare(business_open, total_demands, business_total)
              actionable      == Add(location_filled, location_open)
          IN  [Quarter  |-> QuarterLabel(data[RecordSnapshot(r)]),
               Business |-> business,
               Total    |-> total_demands,
               Filled   |-> location_filled,
               Open     |-> location_open,
               Fulfillment_Rate |-> Percentage(location_filled, actionable)]])

\* df[df['Business'] == selected_business]
FilterBusiness(df, selected) == SelectSeq(df, LAMBDA rec : rec.Business = selected)

-----------------------------------------------------------------------------
(* Pivot grids: index (row labels), columns (column labels), cells *)

\* the cell of a grid
Cell(grid, row, col) == grid.cells[row][col]

\* pivot_df[col] as the list of its cells in index order
Column(grid, col) == [i \in DOMAIN grid.index |-> Cell(grid, grid.index[i], col)]

\* a pivot that accepts two records of one pair and keeps the later one
PivotLastWins(df, values) ==
  Bind(df, LAMBDA records :
    LET rows == {records[i].Business : i \in DOMAIN records}
        cols == {records[i].Quarter : i \in DOMAIN records}
        last(b, q) == CHOOSE i \in DOMAIN records :
                        /\ records[i].Business = b /\ records[i].Quarter = q
                        /\ \A j \in DOMAIN records :
                             records[j].Business = b /\ records[j].Quarter = q => j <= i
    IN  Return([index   |-> SortedLabels(rows),
                columns |-> SortedLabels(cols),
                cells   |-> [b \in rows |-> [q \in cols |->
                               IF \E i \in DOMAIN records :
                                    records[i].Business = b /\ records[i].Quarter = q
                               THEN records[last(b, q)][values] ELSE NaN]]]))

(* df.pivot(index='Business', columns='Quarter', values=values): raises on  *)
(* two records of one (Business, Quarter) pair; row and column labels come  *)
(* out in ascending order; a pair with no record is NaN.                   *)
Pivot(df, values) ==
  Bind(df, LAMBDA records :
    IF \E i, j \in DOMAIN records :
         /\ i < j
         /\ records[i].Business = records[j].Business
         /\ records[i].Quarter = records[j].Quarter
    THEN ValueError
    ELSE LET rows == {records[i].Business : i \in DOMAIN records}
             cols == {records[i].Quarter : i \in DOMAIN records}
         IN  Return(
             [index   |-> SortedLabels(rows),
              columns |-> SortedLabels(cols),
              cells   |-> [b \in rows |-> [q \in cols |->
                             IF \E i \in DOMAIN records :
                                  records[i].Business = b /\ records[i].Quarter = q
                             THEN (records[CHOOSE i \in DOMAIN records :
                                     records[i].Business = b /\ records[i].Quarter = q])[values]
                             ELSE NaN]]]))

\* pivot_df[name] = column: a new rightmost column, given by row label
WithColumn(grid, name, column) ==
  Bind(<<grid, column>>, LAMBDA a :
    [index   |-> a[1].index,
     columns |-> Append(a[1].columns, name),
     cells   |-> [b \in DOMAIN a[1].cells |-> (name :> a[2][b]) @@ a[1].cells[b]]])

\* pivot_df.loc[name] = pd.Series(row): a new last row, aligned on the columns
WithRow(grid, name, row) ==
  Bind(<<grid, row>>, LAMBDA a :
    [index   |-> Append(a[1].index, name),
     columns |-> a[1].columns,
     cells   |-> (name :> [c \in Range(a[1].columns) |-> Get(a[2], c, NaN)]) @@ a[1].cells])

\* the summary rows appended with KPO first
SummaryRowsKPOFirst(grid, vrtu_row, kpo_row, vrtu_excl_kpo_row) ==
  WithRow(WithRow(WithRow(grid, "KPO", kpo_row), "VRTU", vrtu_row),
          "VRTU Excl KPO", vrtu_excl_kpo_row)

\* the three summary rows, appended in this order
AppendSummaryRows(grid, vrtu_row, kpo_row, vrtu_excl_kpo_row) ==
  WithRow(WithRow(WithRow(grid, "VRTU", vrtu_row), "KPO", kpo_row),
          "VRTU Excl KPO", vrtu_excl_kpo_row)

-----------------------------------------------------------------------------
(* create_enhanced_pivot_table: the HC / FTE grids *)

\* qtd_values, by business row, from the grid's last two columns
EnhancedQTD(pivot_df) ==
  Bind(pivot_df, LAMBDA grid :
    LET num_quarters == Len(grid.columns)
    IN  [b \in Range(grid.index) |->
           IF num_quarters >= 2
           THEN Sub(Cell(grid, b, grid.columns[num_quarters]),
                    Cell(grid, b, grid.columns[num_quarters - 1]))
           ELSE Zero])

\* a vrtu_row whose QTD entry is always 0
VRTUWithZeroQTD(with_qtd, num_quarters) ==
  Bind(with_qtd, LAMBDA grid :
    [col \in Range(grid.columns) |->
       IF col = "QTD" THEN Zero ELSE SumSkipNaN(Column(grid, col))])

\* vrtu_row of a grid that already has its QTD column
EnhancedVRTU(with_qtd, num_quarters) ==
  Bind(with_qtd, LAMBDA grid :
    [col \in Range(grid.columns) |->
       IF col = "QTD"
       THEN (IF num_quarters >= 2 THEN SumSeq(Column(grid, "QTD")) ELSE Zero)
       ELSE SumSkipNaN(Column(grid, col))])

\* the total KPO block, whatever the table
KPOKeyOfTotal(metric_key, table_title) ==
  IF metric_key = "hc" THEN "total_kpo_hc" ELSE "total_kpo_fte"

\* the block the KPO row of a table is read from
EnhancedKPOKey(metric_key, table_title) ==
  CASE table_title = "Overall"  -> IF metric_key = "hc" THEN "total_kpo_hc" ELSE "total_kpo_fte"
    [] table_title = "Onsite"   -> IF metric_key = "hc" THEN "onsite_kpo_hc" ELSE "onsite_kpo_fte"
    [] table_title = "Offshore" -> IF metric_key = "hc" THEN "offshore_kpo_hc" ELSE "offshore_kpo_fte"

\* kpo_row: one entry per snapshot label, QTD from the last two snapshots
EnhancedKPO(data_source, metric_key, table_title) ==
  LET key == EnhancedKPOKey(metric_key, table_title)
      kpo_values_list == [i \in DOMAIN data_source |-> data_source[i].metrics[key].total]
      n == Len(kpo_values_list)
      \* a later snapshot of the same label overwrites the entry
      last(q) == CHOOSE i \in DOMAIN data_source :
                   /\ QuarterLabel(data_source[i]) = q
                   /\ \A j \in DOMAIN data_source :
                        QuarterLabel(data_source[j]) = q => j <= i
  IN  [q \in {QuarterLabel(data_source[i]) : i \in DOMAIN data_source} \cup {"QTD"} |->
         IF q = "QTD"
         THEN (IF n >= 2 THEN Sub(kpo_values_list[n], kpo_values_list[n - 1]) ELSE Zero)
         ELSE kpo_values_list[last(q)]]

\* vrtu_excl_kpo_row: VRTU minus KPO where the KPO row has the column
EnhancedExclKPO(columns, vrtu_row, kpo_row) ==
  [quarter \in {c \in Range(columns) : c = "QTD" \/ c \in DOMAIN kpo_row} |->
     Sub(vrtu_row[quarter], kpo_row[quarter])]

create_enhanced_pivot_table(df_business_data, data_source, metric_key, table_title) ==
  Bind(Pivot(df_business_data, "Total"), LAMBDA pivoted :
    IF Raised(pivoted) THEN pivoted
    ELSE IF table_title \notin {"Overall", "Onsite", "Offshore"} THEN KeyError
    ELSE IF \E i \in DOMAIN data_source :
              ~HasBlock(data_source[i], EnhancedKPOKey(metric_key, table_title), "total")
    THEN KeyError
    ELSE
      Bind(WithColumn(pivoted.value, "QTD", EnhancedQTD(pivoted.value)), LAMBDA with_qtd :
      Bind(EnhancedVRTU(with_qtd, Len(pivoted.value.columns)), LAMBDA vrtu_row :
      Bind(EnhancedKPO(data_source, metric_key, table_title), LAMBDA kpo_row :
        Return(AppendSummaryRows(with_qtd, vrtu_row, kpo_row,
                                 EnhancedExclKPO(with_qtd.columns, vrtu_row, kpo_row)))))))

-----------------------------------------------------------------------------
(* create_fulfillment_pivot: the fulfillment grids *)

\* a QTD column that repeats the last column when there is no second-to-last
QTDOfLastColumn(pivot) ==
  Bind(pivot, LAMBDA grid :
    LET n == Len(grid.columns)
    IN  [b \in Range(grid.index) |->
           IF n >= 2
           THEN Sub(Cell(grid, b, grid.columns[n]), Cell(grid, b, grid.columns[n - 1]))
           ELSE Cell(grid, b, grid.columns[n])])

\* pivot['QTD']: last column minus second-to-last column, or 0
FulfillmentQTD(pivot) ==
  Bind(pivot, LAMBDA grid :
    LET n == Len(grid.columns)
    IN  [b \in Range(grid.index) |->
           IF n >= 2
           THEN Sub(Cell(grid, b, grid.columns[n]), Cell(grid, b, grid.columns[n - 1]))
           ELSE Zero])

\* vrtu_row: the sum of every column, QTD included
FulfillmentVRTU(with_qtd) ==
  Bind(with_qtd, LAMBDA grid :
    [col \in Range(grid.columns) |-> SumSkipNaN(Column(grid, col))])

\* the kpo_demands block and the by_business maps the KPO value of a snapshot needs
FulfillmentKPOReadable(quarter_data, metric_col) ==
  /\ "metrics" \in DOMAIN quarter_data
  /\ IF "kpo_demands" \in DOMAIN quarter_data.metrics
     THEN CASE metric_col = "Total"  -> "total" \in DOMAIN quarter_data.metrics["kpo_demands"]
            [] metric_col = "Filled" -> "filled" \in DOMAIN quarter_data.metrics["kpo_demands"]
            [] metric_col = "Open"   -> "open" \in DOMAIN quarter_data.metrics["kpo_demands"]
            [] metric_col = "Fulfillment_Rate" ->
                 {"filled", "open"} \subseteq DOMAIN quarter_data.metrics["kpo_demands"]
            [] OTHER -> TRUE
     ELSE CASE metric_col = "Total"  -> HasBlock(quarter_data, "total_demands", "by_business")
            [] metric_col = "Filled" -> HasBlock(quarter_data, "filled_demands", "by_business")
            [] metric_col = "Open"   -> HasBlock(quarter_data, "open_demands", "by_business")
            [] metric_col = "Fulfillment_Rate" ->
                 HasBlock(quarter_data, "fulfillment_rate", "by_business")
            [] OTHER -> TRUE

\* a kpo_val that is always the TIME business's value
KPOValueOfTIME(quarter_data, metric_col) ==
  LET metrics == quarter_data.metrics IN
  CASE metric_col = "Total"  -> Get(metrics["total_demands"].by_business, "TIME", Zero)
    [] metric_col = "Filled" -> Get(metrics["filled_demands"].by_business, "TIME", Zero)
    [] metric_col = "Open"   -> Get(metrics["open_demands"].by_business, "TIME", Zero)
    [] metric_col = "Fulfillment_Rate" ->
         Get(metrics["fulfillment_rate"].by_business, "TIME", Zero)
    [] OTHER -> Zero

\* kpo_val of one snapshot
FulfillmentKPOValue(quarter_data, metric_col) ==
  LET metrics == quarter_data.metrics IN
  IF "kpo_demands" \in DOMAIN metrics
  THEN CASE metric_col = "Total"  -> metrics["kpo_demands"].total
         [] metric_col = "Filled" -> metrics["kpo_demands"].filled
         [] metric_col = "Open"   -> metrics["kpo_demands"].open
         [] metric_col = "Fulfillment_Rate" ->
              Percentage(metrics["kpo_demands"].filled,
                         Add(metrics["kpo_demands"].filled, metrics["kpo_demands"].open))
         [] OTHER -> Zero
  ELSE CASE metric_col = "Total"  -> Get(metrics["total_demands"].by_business, "TIME", Zero)
         [] metric_col = "Filled" -> Get(metrics["filled_demands"].by_business, "TIME", Zero)
         [] metric_col = "Open"   -> Get(metrics["open_demands"].by_business, "TIME", Zero)
         [] metric_col = "Fulfillment_Rate" ->
              Get(metrics["fulfillment_rate"].by_business, "TIME", Zero)
         [] OTHER -> Zero

\* kpo_row: an entry for every snapshot whose label is a column, then QTD
FulfillmentKPO(with_qtd, metric_col, fulfillment_data_source) ==
  LET inGrid == {i \in DOMAIN fulfillment_data_source :
                   QuarterLabel(fulfillment_data_source[i]) \in Range(with_qtd.columns)}
      \* a later snapshot of the same label overwrites the entry
      last(q) == CHOOSE i \in inGrid :
                   /\ QuarterLabel(fulfillment_data_source[i]) = q
                   /\ \A j \in inGrid :
                        QuarterLabel(fulfillment_data_source[j]) = q => j <= i
      kpo_quarters == SelectSeq(with_qtd.columns, LAMBDA q : q # "QTD")
      n == Len(kpo_quarters)
  IN  Bind([q \in {QuarterLabel(fulfillment_data_source[i]) : i \in inGrid} |->
              FulfillmentKPOValue(fulfillment_data_source[last(q)], metric_col)],
           LAMBDA entries :
             ("QTD" :> (IF n >= 2
                        THEN Sub(Get(entries, kpo_quarters[n], Zero),
                                 Get(entries, kpo_quarters[n - 1], Zero))
                        ELSE Zero)) @@ entries)

\* a vrtu_excl_kpo_row that repeats the VRTU row
ExclKPOIgnoringKPO(columns, vrtu_row, kpo_row) ==
  [quarter \in Range(columns) |-> vrtu_row[quarter]]

\* vrtu_excl_kpo_row: VRTU minus KPO, or VRTU where the KPO row has no entry
FulfillmentExclKPO(columns, vrtu_row, kpo_row) ==
  [quarter \in Range(columns) |->
     IF quarter \in DOMAIN kpo_row
     THEN Sub(vrtu_row[quarter], kpo_row[quarter])
     ELSE vrtu_row[quarter]]

create_fulfillment_pivot(df, metric_col, title, fulfillment_data_source) ==
  Bind(Pivot(df, metric_col), LAMBDA pivoted :
    IF Raised(pivoted) THEN pivoted
    ELSE
      Bind(WithColumn(pivoted.value, "QTD", FulfillmentQTD(pivoted.value)), LAMBDA with_qtd :
        IF \E i \in DOMAIN fulfillment_data_source :
             /\ QuarterLabel(fulfillment_data_source[i]) \in Range(with_qtd.columns)
             /\ ~FulfillmentKPOReadable(fulfillment_data_source[i], metric_col)
        THEN KeyError
        ELSE
          Bind(FulfillmentVRTU(with_qtd), LAMBDA vrtu_row :
          Bind(FulfillmentKPO(with_qtd, metric_col, fulfillment_data_source), LAMBDA kpo_row :
            Return(AppendSummaryRows(with_qtd, vrtu_row, kpo_row,
                                     FulfillmentExclKPO(with_qtd.columns, vrtu_row, kpo_row)))))))

-----------------------------------------------------------------------------
(* Objects.  A DataFrame and a list are objects: the heap is the sequence   *)
(* of the objects that exist, a reference is a position in it, and a call   *)
(* yields the heap it leaves, the exception it raised and, if none, the     *)
(* reference it returns.                                                    *)

\* the records of a frame ordered by Business, then Quarter, then position
SortedRecords(records) ==
  LET before(i, j) ==
        \/ LabelRank[records[i].Business] < LabelRank[records[j].Business]
        \/ /\ records[i].Business = records[j].Business
           /\ \/ LabelRank[records[i].Quarter] < LabelRank[records[j].Quarter]
              \/ records[i].Quarter = records[j].Quarter /\ i < j
  IN  [k \in DOMAIN records |->
         records[CHOOSE i \in DOMAIN records :
                   Cardinality({j \in DOMAIN records : before(j, i)}) = k - 1]]

\* a pivot that first sorts, in place, the frame it reads
PivotSortingFrame(heap, df, values) ==
  Bind(Pivot(heap[df], values), LAMBDA pivoted :
    Bind([heap EXCEPT ![df] = SortedRecords(@)], LAMBDA sorted :
      IF Raised(pivoted) THEN [heap |-> sorted, raised |-> pivoted.raised]
      ELSE [heap |-> Append(sorted, pivoted.value), raised |-> "none",
            ref |-> Len(sorted) + 1]))

\* df.pivot(...): the grid is a new object and the frame is only read
PivotObject(heap, df, values) ==
  Bind(Pivot(heap[df], values), LAMBDA pivoted :
    IF Raised(pivoted) THEN [heap |-> heap, raised |-> pivoted.raised]
    ELSE [heap |-> Append(heap, pivoted.value), raised |-> "none", ref |-> Len(heap) + 1])

\* pivot_df[...] = ..., pivot_df.loc[...] = ...: a write to the object of a reference
Assign(heap, ref, object) == [heap EXCEPT ![ref] = object]

\* create_enhanced_pivot_table on references: the statements write pivot_df only
EnhancedPivotCall(heap, df_business_data, data_source, metric_key, table_title) ==
  Bind(PivotObject(heap, df_business_data, "Total"), LAMBDA p :
    IF p.raised # "none" THEN p ELSE
  Bind(Assign(p.heap, p.ref, WithColumn(p.heap[p.ref], "QTD", EnhancedQTD(p.heap[p.ref]))),
       LAMBDA h :
    IF \/ table_title \notin {"Overall", "Onsite", "Offshore"}
       \/ \E i \in DOMAIN h[data_source] :
            ~HasBlock(h[data_source][i], EnhancedKPOKey(metric_key, table_title), "total")
    THEN [heap |-> h, raised |-> "KeyError"] ELSE
  Bind(EnhancedVRTU(h[p.ref], Len(p.heap[p.ref].columns)), LAMBDA vrtu_row :
  Bind(EnhancedKPO(h[data_source], metric_key, table_title), LAMBDA kpo_row :
    [heap   |-> Assign(h, p.ref,
                  AppendSummaryRows(h[p.ref], vrtu_row, kpo_row,
                                    EnhancedExclKPO(h[p.ref].columns, vrtu_row, kpo_row))),
     raised |-> "none",
     ref    |-> p.ref]))))

\* create_fulfillment_pivot on references: the statements write pivot only
FulfillmentPivotCall(heap, df, metric_col, title, fulfillment_data_source) ==
  Bind(PivotObject(heap, df, metric_col), LAMBDA p :
    IF p.raised # "none" THEN p ELSE
  Bind(Assign(p.heap, p.ref, WithColumn(p.heap[p.ref], "QTD", FulfillmentQTD(p.heap[p.ref]))),
       LAMBDA h :
    IF \E i \in DOMAIN h[fulfillment_data_source] :
         /\ QuarterLabel(h[fulfillment_data_source][i]) \in Range(h[p.ref].columns)
         /\ ~FulfillmentKPOReadable(h[fulfillment_data_source][i], metric_col)
    THEN [heap |-> h, raised |-> "KeyError"] ELSE
  Bind(FulfillmentVRTU(h[p.ref]), LAMBDA vrtu_row :
  Bind(FulfillmentKPO(h[p.ref], metric_col, h[fulfillment_data_source]), LAMBDA kpo_row :
    [heap   |-> Assign(h, p.ref,
                  AppendSummaryRows(h[p.ref], vrtu_row, kpo_row,
                                    FulfillmentExclKPO(h[p.ref].columns, vrtu_row, kpo_row))),
     raised |-> "none",
     ref    |-> p.ref]))))

\* one call of main() to a builder: the frame, the snapshot sequence, the
\* metric key or column, and the title
BuilderCall(heap, call) ==
  IF call.builder = "create_enhanced_pivot_table"
  THEN EnhancedPivotCall(heap, call.df, call.data_source, call.metric, call.title)
  ELSE FulfillmentPivotCall(heap, call.df, call.metric, call.title, call.data_source)

RECURSIVE CallsUpTo(_, _, _)
\* the first n of the calls, one after the other, until one raises: the heap
\* left and the grid each title was given
CallsUpTo(heap, calls, n) ==
  IF n = 0 THEN [heap |-> heap, raised |-> "none", grids |-> <<>>]
  ELSE Bind(CallsUpTo(heap, calls, n - 1), LAMBDA before :
         IF before.raised # "none" THEN before ELSE
         Bind(BuilderCall(before.heap, calls[n]), LAMBDA r :
           [heap   |-> r.heap,
            raised |-> r.raised,
            grids  |-> IF r.raised # "none" THEN before.grids
                       ELSE (calls[n].title :> r.ref) @@ before.grids]))

-----------------------------------------------------------------------------
(* Metric cards, growth, trend frames *)

\* the nine totals a workforce view reads from a snapshot
WorkforceBases ==
  <<"total_billable", "total_kpo", "total_non_kpo", "total_onsite", "onsite_kpo",
    "onsite_non_kpo", "total_offshore", "offshore_kpo", "offshore_non_kpo">>

\* metrics[<base>_<family>]['total']
TotalOf(quarter_data, base, metric_key) ==
  quarter_data.metrics[MetricKey(base, metric_key)].total

HasTotals(quarter_data, bases, metric_key) ==
  \A base \in bases : HasBlock(quarter_data, MetricKey(base, metric_key), "total")

display_metrics_cards(quarter_data, metric_key) ==
  IF ~HasTotals(quarter_data, Range(WorkforceBases), metric_key) THEN KeyError
  ELSE LET T(base) == TotalOf(quarter_data, base, metric_key) IN
       Return(
       [total    |-> T("total_billable"),
        kpo      |-> T("total_kpo"),
        non_kpo  |-> T("total_non_kpo"),
        onsite   |-> T("total_onsite"),
        offshore |-> T("total_offshore"),
        kpo_pct      |-> Percentage(T("total_kpo"), T("total_billable")),
        non_kpo_pct  |-> Percentage(T("total_non_kpo"), T("total_billable")),
        onsite_pct   |-> Percentage(T("total_onsite"), T("total_billable")),
        offshore_pct |-> Percentage(T("total_offshore"), T("total_billable")),
        onsite_kpo_pct       |-> Percentage(T("onsite_kpo"), T("total_onsite")),
        onsite_non_kpo_pct   |-> Percentage(T("onsite_non_kpo"), T("total_onsite")),
        offshore_kpo_pct     |-> Percentage(T("offshore_kpo"), T("total_offshore")),
        offshore_non_kpo_pct |-> Percentage(T("offshore_non_kpo"), T("total_offshore"))])

\* the totals whose growth is shown
GrowthBases ==
  {"total_billable", "total_kpo", "total_non_kpo", "total_onsite", "total_offshore"}

\* a growth rate relative to the last value
GrowthOverLast(first, last) == Percentage(Sub(last, first), last)

\* ((last - first) / first * 100) if first > 0 else 0
Growth(first, last) == Percentage(Sub(last, first), first)

\* nothing (<<>>) when there are fewer than 2 snapshots, else per total its first
\* and last value and its growth
display_growth_metrics(data, metric_key) ==
  IF Len(data) < 2 THEN Return(<<>>)
  ELSE IF ~("metrics" \in DOMAIN data[1] /\ "metrics" \in DOMAIN data[Len(data)]) THEN KeyError
  ELSE IF ~(HasTotals(data[1], GrowthBases, metric_key)
            /\ HasTotals(data[Len(data)], GrowthBases, metric_key)) THEN KeyError
  ELSE Return([base \in GrowthBases |->
          [first  |-> TotalOf(data[1], base, metric_key),
           last   |-> TotalOf(data[Len(data)], base, metric_key),
           growth |-> Growth(TotalOf(data[1], base, metric_key),
                             TotalOf(data[Len(data)], base, metric_key))]])

\* metrics.get(key, {}).get('total', 0): a missing metric read as 0
TotalOrZero(quarter_data, base, metric_key) ==
  IF HasBlock(quarter_data, MetricKey(base, metric_key), "total")
  THEN TotalOf(quarter_data, base, metric_key) ELSE Zero

\* a per-quarter frame that fills a missing metric with 0
QuarterFrameWithDefaults(data, metric_key) ==
  Return([i \in DOMAIN data |->
          [Quarter  |-> QuarterLabel(data[i]),
           Total    |-> TotalOrZero(data[i], "total_billable", metric_key),
           KPO      |-> TotalOrZero(data[i], "total_kpo", metric_key),
           Non_KPO  |-> TotalOrZero(data[i], "total_non_kpo", metric_key),
           Onsite   |-> TotalOrZero(data[i], "total_onsite", metric_key),
           Onsite_KPO       |-> TotalOrZero(data[i], "onsite_kpo", metric_key),
           Onsite_Non_KPO   |-> TotalOrZero(data[i], "onsite_non_kpo", metric_key),
           Offshore |-> TotalOrZero(data[i], "total_offshore", metric_key),
           Offshore_KPO     |-> TotalOrZero(data[i], "offshore_kpo", metric_key),
           Offshore_Non_KPO |-> TotalOrZero(data[i], "offshore_non_kpo", metric_key)]])

create_quarter_dataframe(data, metric_key) ==
  IF \E i \in DOMAIN data : ~HasTotals(data[i], Range(WorkforceBases), metric_key)
  THEN KeyError
  ELSE Return([i \in DOMAIN data |->
          [Quarter  |-> QuarterLabel(data[i]),
           Total    |-> TotalOf(data[i], "total_billable", metric_key),
           KPO      |-> TotalOf(data[i], "total_kpo", metric_key),
           Non_KPO  |-> TotalOf(data[i], "total_non_kpo", metric_key),
           Onsite   |-> TotalOf(data[i], "total_onsite", metric_key),
           Onsite_KPO       |-> TotalOf(data[i], "onsite_kpo", metric_key),
           Onsite_Non_KPO   |-> TotalOf(data[i], "onsite_non_kpo", metric_key),
           Offshore |-> TotalOf(data[i], "total_offshore", metric_key),
           Offshore_KPO     |-> TotalOf(data[i], "offshore_kpo", metric_key),
           Offshore_Non_KPO |-> TotalOf(data[i], "offshore_non_kpo", metric_key)]])

\* the KPO share of every snapshot, in sequence order
plot_kpo_percentage(data, metric_key) ==
  [i \in DOMAIN data |->
     [quarter |-> QuarterLabel(data[i]),
      total   |-> TotalOf(data[i], "total_billable", metric_key),
      kpo_pct |-> Percentage(TotalOf(data[i], "total_kpo", metric_key),
                             TotalOf(data[i], "total_billable", metric_key))]]

\* a comparison that pairs an HC snapshot with the first FTE snapshot of its
\* quarter and leaves out the HC snapshots that have none
ComparisonByQuarter(hc, fte) ==
  Bind(SelectSeq(hc, LAMBDA hc_quarter :
         \E j \in DOMAIN fte : QuarterLabel(fte[j]) = QuarterLabel(hc_quarter)), LAMBDA paired :
    Return([i \in DOMAIN paired |->
          LET hc_total  == paired[i].metrics["total_billable_hc"].total
              fte_total ==
                fte[CHOOSE j \in DOMAIN fte :
                      /\ QuarterLabel(fte[j]) = QuarterLabel(paired[i])
                      /\ \A k \in 1..(j - 1) : QuarterLabel(fte[k]) # QuarterLabel(paired[i])
                   ].metrics["total_billable_fte"].total
              diff      == Sub(hc_total, fte_total)
          IN  [Quarter    |-> QuarterLabel(paired[i]),
               Total_HC   |-> hc_total,
               Total_FTE  |-> fte_total,
               Difference |-> diff,
               Pct_Difference |-> Percentage(diff, hc_total)]]))

\* the comparison table: hc[i] against fte[i] for every i both documents have
comparison_records(hc, fte) ==
  IF \E i \in DOMAIN hc : i <= Len(fte) /\
        ~(HasBlock(hc[i], "total_billable_hc", "total")
          /\ HasBlock(fte[i], "total_billable_fte", "total"))
  THEN KeyError
  ELSE Return([i \in 1..(IF Len(hc) < Len(fte) THEN Len(hc) ELSE Len(fte)) |->
          LET hc_total  == hc[i].metrics["total_billable_hc"].total
              fte_total == fte[i].metrics["total_billable_fte"].total
              diff      == Sub(hc_total, fte_total)
          IN  [Quarter    |-> QuarterLabel(hc[i]),
               Total_HC   |-> hc_total,
               Total_FTE  |-> fte_total,
               Difference |-> diff,
               Pct_Difference |-> Percentage(diff, hc_total)]])

\* the fulfillment totals a card or trend row reads
FulfillmentTotalsReadable(quarter_data) ==
  /\ \A key \in {"total_demands", "filled_demands", "open_demands",
                 "cancelled_demands", "expired_demands"} :
       HasBlock(quarter_data, key, "total")
  /\ HasBlock(quarter_data, "fulfillment_rate", "overall")

display_fulfillment_metrics_cards(quarter_data) ==
  IF ~(FulfillmentTotalsReadable(quarter_data)
       /\ HasBlock(quarter_data, "onsite_demands", "total")
       /\ HasBlock(quarter_data, "offshore_demands", "total"))
  THEN KeyError
  ELSE LET metrics == quarter_data.metrics IN
       Return(
       [total     |-> metrics["total_demands"].total,
        filled    |-> metrics["filled_demands"].total,
        open      |-> metrics["open_demands"].total,
        cancelled |-> metrics["cancelled_demands"].total,
        expired   |-> metrics["expired_demands"].total,
        fulfillment_rate |-> metrics["fulfillment_rate"].overall,
        offshore  |-> metrics["offshore_demands"].total,
        offshore_pct |-> Percentage(metrics["offshore_demands"].total,
                                    metrics["total_demands"].total)])

create_fulfillment_dataframe(data) ==
  IF \E i \in DOMAIN data : ~FulfillmentTotalsReadable(data[i]) THEN KeyError
  ELSE Return([i \in DOMAIN data |->
          [Quarter   |-> QuarterLabel(data[i]),
           Total     |-> data[i].metrics["total_demands"].total,
           Filled    |-> data[i].metrics["filled_demands"].total,
           Open      |-> data[i].metrics["open_demands"].total,
           Cancelled |-> data[i].metrics["cancelled_demands"].total,
           Expired   |-> data[i].metrics["expired_demands"].total,
           Fulfillment_Rate |-> data[i].metrics["fulfillment_rate"].overall]])

-----------------------------------------------------------------------------
(* main(): one run of the script renders a page *)

HC == "Headcount (HC)"
FTE == "Full-Time Equivalent (FTE)"
Comparison == "HC vs FTE Comparison"
Fulfillment == "Fulfillment Metrics"

\* `if fulfillment_data:` - neither None (<<>> here) nor an empty list
Truthy(d) == d # <<>>

\* the options of the 'Select Metric Type' radio
metric_options(ful) ==
  IF Truthy(ful) THEN <<HC, FTE, Comparison, Fulfillment>> ELSE <<HC, FTE, Comparison>>

\* the selectbox value: the stored choice if it is an option, else the default, the last option
QuarterChoice(data, choice) ==
  LET quarters == [i \in DOMAIN data |-> QuarterLabel(data[i])]
  IN  IF choice \in Range(quarters) THEN choice ELSE quarters[Len(quarters)]

\* [q for q in data if label(q) == selected_quarter][0]
SelectedQuarterData(data, choice) ==
  data[CHOOSE i \in DOMAIN data :
         /\ QuarterLabel(data[i]) = QuarterChoice(data, choice)
         /\ \A j \in DOMAIN data : QuarterLabel(data[j]) = QuarterChoice(data, choice) => i <= j]

\* a page: the view, the elements rendered before the run ended, the exception that ended it
Page(view, elements, error) == [view |-> view, elements |-> elements, error |-> error]

\* the three detailed tables of the HC / FTE view, and the exception that ended them
WorkforceTables(data, metric_key) ==
  Bind(create_business_dataframe(data, metric_key), LAMBDA df_business_overall :
  Bind(create_location_business_dataframe(data, metric_key, "onsite"), LAMBDA df_business_onsite :
  Bind(create_location_business_dataframe(data, metric_key, "offshore"), LAMBDA df_business_offshore :
    IF Raised(df_business_overall)
    THEN [tables |-> <<>>, error |-> df_business_overall.raised]
    ELSE IF Raised(df_business_onsite)
    THEN [tables |-> <<>>, error |-> df_business_onsite.raised]
    ELSE IF Raised(df_business_offshore)
    THEN [tables |-> <<>>, error |-> df_business_offshore.raised]
    ELSE
      Bind(create_enhanced_pivot_table(df_business_overall.value, data, metric_key, "Overall"),
           LAMBDA pivot_overall :
        IF Raised(pivot_overall) THEN [tables |-> <<>>, error |-> pivot_overall.raised]
        ELSE
      Bind(create_enhanced_pivot_table(df_business_onsite.value, data, metric_key, "Onsite"),
           LAMBDA pivot_onsite :
        IF Raised(pivot_onsite)
        THEN [tables |-> ("Overall" :> pivot_overall.value), error |-> pivot_onsite.raised]
        ELSE
      Bind(create_enhanced_pivot_table(df_business_offshore.value, data, metric_key, "Offshore"),
           LAMBDA pivot_offshore :
        IF Raised(pivot_offshore)
        THEN [tables |-> ("Overall" :> pivot_overall.value) @@ ("Onsite" :> pivot_onsite.value),
              error |-> pivot_offshore.raised]
        ELSE [tables |-> ("Overall" :> pivot_overall.value)
                           @@ ("Onsite" :> pivot_onsite.value)
                           @@ ("Offshore" :> pivot_offshore.value),
              error |-> "none"]))))))

\* the HC / FTE view
WorkforceView(view, data, metric_key, quarter, business) ==
  Bind(("selected_quarter" :> QuarterChoice(data, quarter)), LAMBDA e1 :
  Bind(display_metrics_cards(SelectedQuarterData(data, quarter), metric_key), LAMBDA cards :
    IF Raised(cards) THEN Page(view, e1, cards.raised) ELSE
  Bind(display_growth_metrics(data, metric_key), LAMBDA growth :
    IF Raised(growth) THEN Page(view, e1 @@ ("cards" :> cards.value), growth.raised) ELSE
  Bind(e1 @@ ("cards" :> cards.value) @@ ("growth" :> growth.value), LAMBDA e3 :
  Bind(create_quarter_dataframe(data, metric_key), LAMBDA df_quarters :
    IF Raised(df_quarters) THEN Page(view, e3, df_quarters.raised) ELSE
  Bind(e3 @@ ("df_quarters" :> df_quarters.value)
          @@ ("kpo_percentage" :> plot_kpo_percentage(data, metric_key)), LAMBDA e4 :
  Bind(create_business_dataframe(data, metric_key), LAMBDA df_business :
    IF Raised(df_business) THEN Page(view, e4, df_business.raised) ELSE
  Bind(WorkforceTables(data, metric_key), LAMBDA t :
    Page(view,
         e4 @@ ("df_business" :> IF business # "All"
                                 THEN FilterBusiness(df_business.value, business)
                                 ELSE df_business.value)
            @@ ("tables" :> t.tables),
         t.error)))))))))

\* the detailed fulfillment tables built from one frame: <<title, metric_col>> in page order
OverallTables ==
  << <<"Total Demands", "Total">>, <<"Filled Demands", "Filled">>,
     <<"Open Demands", "Open">>, <<"Fulfillment Rate", "Fulfillment_Rate">> >>
OnsiteTables ==
  << <<"Onsite Total Demands", "Total">>, <<"Onsite Filled Demands", "Filled">>,
     <<"Onsite Open Demands", "Open">> >>
OffshoreTables ==
  << <<"Offshore Total Demands", "Total">>, <<"Offshore Filled Demands", "Filled">>,
     <<"Offshore Open Demands", "Open">> >>

(* The tables of `specs`, built one after the other from the frame that   *)
(* call df returned and added to `done`, until a call raises; nothing is   *)
(* built once `done` holds an exception.                                   *)
TablesFrom(df, specs, fulfillment_data_source, done) ==
  Bind(done, LAMBDA before :
    IF before.error # "none" THEN before ELSE
  Bind(df, LAMBDA frame :
    IF Raised(frame) THEN [tables |-> before.tables, error |-> frame.raised] ELSE
  Bind([i \in DOMAIN specs |->
          create_fulfillment_pivot(frame.value, specs[i][2], specs[i][1],
                                   fulfillment_data_source)], LAMBDA pivots :
  Bind({i \in DOMAIN specs : \A j \in 1..i : ~Raised(pivots[j])}, LAMBDA built :
    [tables |-> [title \in {specs[i][1] : i \in built} |->
                   pivots[CHOOSE i \in built : specs[i][1] = title].value] @@ before.tables,
     error  |-> IF built = DOMAIN specs THEN "none"
                ELSE pivots[Cardinality(built) + 1].raised]))))

\* the ten detailed tables of the fulfillment view; df_business_fulfillment is
\* the frame the business filter was applied to
FulfillmentTables(data, df_business_fulfillment) ==
  TablesFrom(create_fulfillment_location_business_dataframe(data, "offshore"),
             OffshoreTables, data,
    TablesFrom(create_fulfillment_location_business_dataframe(data, "onsite"),
               OnsiteTables, data,
      TablesFrom(Return(df_business_fulfillment), OverallTables, data,
                 [tables |-> <<>>, error |-> "none"])))

\* the fulfillment view
FulfillmentView(data, quarter, business) ==
  Bind(("selected_quarter" :> QuarterChoice(data, quarter)), LAMBDA e1 :
  Bind(display_fulfillment_metrics_cards(SelectedQuarterData(data, quarter)), LAMBDA cards :
    IF Raised(cards) THEN Page(Fulfillment, e1, cards.raised) ELSE
  Bind(create_fulfillment_dataframe(data), LAMBDA df_fulfillment :
    IF Raised(df_fulfillment)
    THEN Page(Fulfillment, e1 @@ ("cards" :> cards.value), df_fulfillment.raised) ELSE
  Bind(e1 @@ ("cards" :> cards.value) @@ ("df_fulfillment" :> df_fulfillment.value), LAMBDA e3 :
  Bind(create_fulfillment_business_dataframe(data), LAMBDA df_business :
    IF Raised(df_business) THEN Page(Fulfillment, e3, df_business.raised) ELSE
  Bind(IF business # "All" THEN FilterBusiness(df_business.value, business)
                           ELSE df_business.value, LAMBDA df_business_fulfillment :
  Bind(FulfillmentTables(data, df_business_fulfillment), LAMBDA t :
    Page(Fulfillment,
         e3 @@ ("df_business" :> df_business_fulfillment) @@ ("tables" :> t.tables),
         t.error))))))))

\* the HC vs FTE comparison view
ComparisonView(hc, fte) ==
  LET records == comparison_records(hc, fte)
  IN  IF Raised(records) THEN Page(Comparison, <<>>, records.raised)
      ELSE Page(Comparison, ("comparison" :> records.value), "none")

\* main() for the documents and the sidebar state
main(hc, fte, ful, mtype, quarter, business) ==
  CASE mtype = HC  -> WorkforceView(HC, hc, "hc", quarter, business)
    [] mtype = FTE -> WorkforceView(FTE, fte, "fte", quarter, business)
    [] mtype = Comparison -> ComparisonView(hc, fte)
    [] mtype = Fulfillment ->
         IF Truthy(ful) THEN FulfillmentView(ful, quarter, business)
         ELSE Page(Fulfillment, <<>>, "none")

-----------------------------------------------------------------------------
(* The documents the model explores *)

\* the fiscal periods a snapshot may carry
Periods == {<<"FY25", "Q1">>, <<"FY25", "Q2">>, <<"FY26", "Q1">>}

\* the businesses a snapshot's by_business maps may lack
AbsentBusinesses == {"GROWTH MARKETS"}

\* per-snapshot inputs of a document: its period and its size u
SnapshotParams == [period : Periods, u : 0..MaxVal]

\* sequences of 1..MaxSnapshots elements of S
SeqsUpTo(S) == UNION {[1..n -> S] : n \in 1..MaxSnapshots}

Reverse(s) == [i \in DOMAIN s |-> s[Len(s) + 1 - i]]

\* a workforce document from its per-snapshot inputs; snapshot `hole` (0: none)
\* lacks AbsentBusinesses
WorkforceDoc(metric_key, ps, hole) ==
  [i \in DOMAIN ps |->
     WorkforceSnapshot(metric_key, ps[i].period[1], ps[i].period[2], ps[i].u,
                       IF i = hole THEN AbsentBusinesses ELSE {})]

\* a fulfillment document; the snapshots from position kpo_from on have a
\* kpo_demands block
FulfillmentDoc(ps, kpo_from, hole) ==
  [i \in DOMAIN ps |->
     FulfillmentSnapshot(ps[i].period[1], ps[i].period[2], ps[i].u,
                         i >= kpo_from, ps[i].u,
                         IF i = hole THEN AbsentBusinesses ELSE {})]

(* The inputs of the documents explored: every sequence of snapshot inputs  *)
(* with complete by_business maps, and every sequence of periods of        *)
(* full-size snapshots with one snapshot lacking AbsentBusinesses.         *)
DocInputs ==
  {<<ps, 0>> : ps \in SeqsUpTo(SnapshotParams)}
    \cup {x \in SeqsUpTo([period : Periods, u : {MaxVal}]) \X (1..MaxSnapshots) :
            x[2] <= Len(x[1])}

\* a snapshot that has no 'metrics' object
WithoutMetrics(quarter_data) ==
  [k \in DOMAIN quarter_data \ {"metrics"} |-> quarter_data[k]]

\* a fulfillment document of full-size snapshots whose snapshot `bare` has no
\* 'metrics' object
BareFulfillmentDoc(periods, bare) ==
  [i \in DOMAIN periods |->
     IF i = bare
     THEN WithoutMetrics(FulfillmentSnapshot(periods[i][1], periods[i][2], MaxVal, TRUE, MaxVal, {}))
     ELSE FulfillmentSnapshot(periods[i][1], periods[i][2], MaxVal, TRUE, MaxVal, {})]

\* the inputs of the documents with a bare snapshot: the periods and the
\* position of the bare snapshot
BareInputs == {x \in SeqsUpTo(Periods) \X (1..MaxSnapshots) : x[2] <= Len(x[1])}

\* a snapshot whose 'metrics' object has no entry `key`
WithoutKey(quarter_data, key) ==
  [quarter_data EXCEPT !.metrics = [k \in DOMAIN quarter_data.metrics \ {key} |->
                                      quarter_data.metrics[k]]]

\* a workforce document of two quarters whose snapshot `pos` lacks metric `base`
StrictDoc(metric_key, base, pos) ==
  [i \in 1..2 |->
     Bind(WorkforceSnapshot(metric_key, "FY25", IF i = 1 THEN "Q1" ELSE "Q2", i, {}),
          LAMBDA quarter_data :
            IF i = pos THEN WithoutKey(quarter_data, MetricKey(base, metric_key))
            ELSE quarter_data)]

\* the inputs of the documents with a missing metric: the metric and the
\* position of the snapshot that lacks it
StrictInputs == {"total_billable", "total_kpo", "total_non_kpo", "total_onsite", "onsite_kpo",
                 "onsite_non_kpo", "total_offshore", "offshore_kpo", "offshore_non_kpo"}
                  \X {1, 2}

\* the HIL counts of a prorated snapshot: its onsite and offshore demands
\* and, of its demands, the filled ones
ProratedCounts == [onsite : 0..2, offshore : 0..2, filled : 0..3]

(* A fulfillment document of one snapshot for the prorated location split:  *)
(* HIL has the counts c and 3 - c.filled open demands, TIME has 2 filled    *)
(* and 1 open demand under a total of 0, and the other businesses are      *)
(* those of a full-size snapshot.                                          *)
ProratedDoc(c) ==
  Bind(FulfillmentSnapshot("FY25", "Q1", MaxVal, TRUE, MaxVal, {}), LAMBDA quarter_data :
    LET with(key, hil, time) ==
          [quarter_data.metrics[key] EXCEPT
             !.by_business = [@ EXCEPT !["HIL"] = Num(hil), !["TIME"] = Num(time)]]
    IN  << [quarter_data EXCEPT
              !.metrics =
                 ("total_demands"    :> with("total_demands", c.onsite + c.offshore, 0)) @@
                 ("filled_demands"   :> with("filled_demands", c.filled, 2)) @@
                 ("open_demands"     :> with("open_demands", 3 - c.filled, 1)) @@
                 ("onsite_demands"   :> with("onsite_demands", c.onsite, 0)) @@
                 ("offshore_demands" :> with("offshore_demands", c.offshore, 0)) @@
                 quarter_data.metrics] >>)

\* the inputs of an FTE document compared with an HC document of other
\* length and other periods
FTEInputs == SeqsUpTo([period : {<<"FY26", "Q1">>}, u : {0, MaxVal}])

\* the documents the views that are not under study read: two quarters in order
SampleInputs == <<[period |-> <<"FY25", "Q1">>, u |-> 1], [period |-> <<"FY25", "Q2">>, u |-> 0]>>

-----------------------------------------------------------------------------
(* The session *)

\* selected_quarter before the user touched the selectbox
Default == "default"

\* the values of 'Filter by Business' the model selects
FilterChoices == {"All", "HIL"}

\* the document the quarter selectbox of a view lists
ViewData(mtype) ==
  CASE mtype = HC -> hc_data
    [] mtype = FTE -> fte_data
    [] mtype = Fulfillment -> fulfillment_data
    [] OTHER -> <<>>

Labels(data) == {QuarterLabel(data[i]) : i \in DOMAIN data}

\* the value of the quarter selectbox in a run of view mtype: the stored
\* choice when it is one of the options, the last option otherwise, and no
\* selectbox in the comparison view
CurrentQuarter(mtype, choice) ==
  IF mtype \in {HC, FTE, Fulfillment} /\ Truthy(ViewData(mtype))
  THEN QuarterChoice(ViewData(mtype), choice) ELSE Default

\* the view of a run that ended in `except Exception`: st.error and return
LoadError == "Error loading data"

\* one of the load_data calls of main() raises; the fulfillment file is
\* loaded only if it exists
LoadFails ==
  \/ "hc" \in unreadable
  \/ "fte" \in unreadable
  \/ fulfillment_exists /\ "fulfillment" \in unreadable

\* one run of main(): the documents are loaded, then the page is rendered
Rerun(mtype, quarter, business) ==
  IF LoadFails THEN Page(LoadError, <<>>, "none")
  ELSE main(hc_data, fte_data, fulfillment_data, mtype, quarter, business)

Init ==
  /\ \/ \E x \in DocInputs :
          /\ hc_data = WorkforceDoc("hc", x[1], x[2])
          /\ fte_data = WorkforceDoc("fte", Reverse(x[1]), x[2])
          /\ fulfillment_exists = TRUE
          /\ fulfillment_data = FulfillmentDoc(SampleInputs, 1, 0)
          /\ unreadable = {}
     \/ \E x \in DocInputs, kpo_from \in {1, 2} :
          /\ kpo_from = 2 => \A i \in DOMAIN x[1] : x[1][i].u = MaxVal
          /\ hc_data = WorkforceDoc("hc", SampleInputs, 0)
          /\ fte_data = WorkforceDoc("fte", SampleInputs, 0)
          /\ fulfillment_exists = TRUE
          /\ fulfillment_data = FulfillmentDoc(x[1], kpo_from, x[2])
          /\ unreadable = {}
     \/ \E x \in BareInputs :
          /\ hc_data = WorkforceDoc("hc", SampleInputs, 0)
          /\ fte_data = WorkforceDoc("fte", SampleInputs, 0)
          /\ fulfillment_exists = TRUE
          /\ fulfillment_data = BareFulfillmentDoc(x[1], x[2])
          /\ unreadable = {}
     \/ \E x \in StrictInputs :
          /\ hc_data = StrictDoc("hc", x[1], x[2])
          /\ fte_data = StrictDoc("fte", x[1], 3 - x[2])
          /\ fulfillment_exists = FALSE
          /\ fulfillment_data = <<>>
          /\ unreadable = {}
     \/ /\ hc_data = WorkforceDoc("hc", SampleInputs, 0)
        /\ fte_data = WorkforceDoc("fte", SampleInputs, 0)
        /\ fulfillment_exists \in BOOLEAN
        /\ fulfillment_data = <<>>
        /\ unreadable = {}
     \/ \E file \in {"hc", "fte", "fulfillment"} :
          /\ hc_data = WorkforceDoc("hc", SampleInputs, 0)
          /\ fte_data = WorkforceDoc("fte", SampleInputs, 0)
          /\ fulfillment_exists = TRUE
          /\ fulfillment_data = FulfillmentDoc(SampleInputs, 1, 0)
          /\ unreadable = {file}
  /\ metric_type = HC
  /\ selected_quarter = IF LoadFails THEN Default ELSE CurrentQuarter(HC, Default)
  /\ selected_business = "All"
  /\ page = Rerun(HC, selected_quarter, "All")

\* the radio 'Select Metric Type'; the quarter selectbox keeps its value only
\* between the HC and the FTE view, which share its key
SelectMetricType(m) ==
  /\ ~LoadFails
  /\ m \in Range(metric_options(fulfillment_data))
  /\ m # metric_type
  /\ metric_type' = m
  /\ selected_quarter' =
       CurrentQuarter(m, IF {metric_type, m} \subseteq {HC, FTE}
                         THEN selected_quarter ELSE Default)
  /\ page' = Rerun(m, selected_quarter', selected_business)
  /\ UNCHANGED <<docs, selected_business>>

\* the selectbox 'Select Quarter for Detailed View'
SelectQuarter(q) ==
  /\ ~LoadFails
  /\ metric_type \in {HC, FTE, Fulfillment}
  /\ q \in Labels(ViewData(metric_type))
  /\ q # selected_quarter
  /\ selected_quarter' = q
  /\ page' = Rerun(metric_type, q, selected_business)
  /\ UNCHANGED <<docs, metric_type, selected_business>>

\* the selectbox 'Filter by Business'
SelectBusiness(b) ==
  /\ ~LoadFails
  /\ b \in FilterChoices
  /\ b # selected_business
  /\ selected_business' = b
  /\ page' = Rerun(metric_type, selected_quarter, b)
  /\ UNCHANGED <<docs, metric_type, selected_quarter>>

Next ==
  \/ \E m \in {HC, FTE, Comparison, Fulfillment} : SelectMetricType(m)
  \/ \E q \in {p[1] \o " " \o p[2] : p \in Periods} : SelectQuarter(q)
  \/ \E b \in FilterChoices : SelectBusiness(b)

Spec == Init /\ [][Next]_vars

(* The session on the inputs of the extraction and builder functions: an   *)
(* HC and an FTE document of independent lengths and periods, fulfillment  *)
(* documents of full-size snapshots, and the prorated documents.           *)
InputInit ==
  /\ \/ \E ps \in SeqsUpTo([period : Periods, u : {MaxVal}]), qs \in FTEInputs :
          /\ hc_data = WorkforceDoc("hc", ps, 0)
          /\ fte_data = WorkforceDoc("fte", qs, 0)
          /\ fulfillment_exists = FALSE
          /\ fulfillment_data = <<>>
     \/ \E ps \in SeqsUpTo([period : Periods, u : {MaxVal}]) :
          /\ hc_data = WorkforceDoc("hc", SampleInputs, 0)
          /\ fte_data = WorkforceDoc("fte", SampleInputs, 0)
          /\ fulfillment_exists = TRUE
          /\ fulfillment_data = FulfillmentDoc(ps, 1, 0)
     \/ \E c \in ProratedCounts :
          /\ hc_data = WorkforceDoc("hc", SampleInputs, 0)
          /\ fte_data = WorkforceDoc("fte", SampleInputs, 0)
          /\ fulfillment_exists = TRUE
          /\ fulfillment_data = ProratedDoc(c)
  /\ unreadable = {}
  /\ metric_type = HC
  /\ selected_quarter = CurrentQuarter(HC, Default)
  /\ selected_business = "All"
  /\ page = Rerun(HC, selected_quarter, "All")

InputSpec == InputInit /\ [][Next]_vars

-----------------------------------------------------------------------------
(* Properties of the rendered page *)

\* the document the current view reads, and its family key
view_data == ViewData(metric_type)

metric_family == IF metric_type = FTE THEN "fte" ELSE "hc"

\* the enriched pivot grids on the page, by title
Grids == IF "tables" \in DOMAIN page.elements THEN page.elements["tables"] ELSE <<>>

\* the quarter columns of a grid and its business rows
QuarterColumns(g) == SelectSeq(g.columns, LAMBDA c : c # "QTD")

BusinessRows(g) == SubSeq(g.index, 1, Len(g.index) - 3)

\* the flat records a grid was pivoted from and the field its cells hold
GridFrame(title) ==
  IF metric_type \in {HC, FTE}
  THEN CASE title = "Overall"  -> create_business_dataframe(view_data, metric_family).value
         [] title = "Onsite"   -> create_location_business_dataframe(view_data, metric_family, "onsite").value
         [] title = "Offshore" -> create_location_business_dataframe(view_data, metric_family, "offshore").value
  ELSE IF \E i \in DOMAIN OverallTables : OverallTables[i][1] = title
       THEN page.elements["df_business"]
  ELSE IF \E i \in DOMAIN OnsiteTables : OnsiteTables[i][1] = title
       THEN create_fulfillment_location_business_dataframe(view_data, "onsite").value
  ELSE create_fulfillment_location_business_dataframe(view_data, "offshore").value

GridField(title) ==
  IF metric_type \in {HC, FTE} THEN "Total"
  ELSE LET specs == OverallTables \o OnsiteTables \o OffshoreTables
       IN  specs[CHOOSE i \in DOMAIN specs : specs[i][1] = title][2]

\* the values of business b in the flat records, in snapshot order
ValuesOf(title, b) ==
  LET rows == SelectSeq(GridFrame(title), LAMBDA rec : rec.Business = b)
  IN  [i \in DOMAIN rows |-> rows[i][GridField(title)]]

\* the quarter labels of the document in snapshot order
SnapshotLabels == [i \in DOMAIN view_data |-> QuarterLabel(view_data[i])]

-----------------------------------------------------------------------------
(* C1: in every enriched pivot grid, HC / FTE or fulfillment, and for every *)
(* quarter column q, VRTU[q] = KPO[q] + VRTU Excl KPO[q]; where the KPO     *)
(* value of a quarter is 0, VRTU Excl KPO equals VRTU for that quarter.    *)
C1_Decomposition ==
  \A t \in DOMAIN Grids : \A q \in Range(QuarterColumns(Grids[t])) :
    LET g == Grids[t] IN
    /\ ~IsNaN(Cell(g, "VRTU", q))
    /\ Cell(g, "VRTU", q) = Add(Cell(g, "KPO", q), Cell(g, "VRTU Excl KPO", q))
    /\ Cell(g, "KPO", q) = Zero => Cell(g, "VRTU Excl KPO", q) = Cell(g, "VRTU", q)

\* a grid with a quarter of KPO 0 under a positive VRTU, and a quarter of positive KPO
C1_Witness ==
  \E t \in DOMAIN Grids : \E q1, q2 \in Range(QuarterColumns(Grids[t])) :
    /\ Cell(Grids[t], "KPO", q1) = Zero
    /\ Positive(Cell(Grids[t], "VRTU", q1))
    /\ Cell(Grids[t], "VRTU Excl KPO", q1) = Cell(Grids[t], "VRTU", q1)
    /\ Positive(Cell(Grids[t], "KPO", q2))

(* C2: in every pivot grid the QTD cell of the VRTU row is the sum of the   *)
(* QTD cells of the business rows, and with two or more quarter columns it  *)
(* is the VRTU row's last quarter cell minus its second-to-last.           *)
C2_QTDLinearity ==
  \A t \in DOMAIN Grids :
    LET g  == Grids[t]
        qs == QuarterColumns(g)
        n  == Len(qs)
        rows == BusinessRows(g)
    IN  /\ Cell(g, "VRTU", "QTD") = SumSeq([i \in DOMAIN rows |-> Cell(g, rows[i], "QTD")])
        /\ n >= 2 => Cell(g, "VRTU", "QTD")
                       = Sub(Cell(g, "VRTU", qs[n]), Cell(g, "VRTU", qs[n - 1]))

\* a grid of two quarter columns whose business rows changed, each its own way
C2_Witness ==
  \E t \in DOMAIN Grids :
    /\ Len(QuarterColumns(Grids[t])) >= 2
    /\ Cell(Grids[t], "VRTU", "QTD") # Zero
    /\ \E b1, b2 \in Range(BusinessRows(Grids[t])) :
         Cell(Grids[t], b1, "QTD") # Cell(Grids[t], b2, "QTD")

\* whole <= 0 implies pct = 0
ZeroWhenNotPositive(whole, pct) == ~Positive(whole) => pct = Zero

(* C3: every percentage the program derives (the shares on the cards, the  *)
(* KPO share per quarter, the growth rates, the HC-vs-FTE % difference, the *)
(* location and KPO fulfillment rates) is a number, and is 0 whenever its   *)
(* denominator is not positive, whatever the numerator.                    *)
C3_RatioSafety ==
  /\ metric_type \in {HC, FTE} /\ "cards" \in DOMAIN page.elements =>
       LET cards == page.elements["cards"] IN
       /\ \A pct \in {cards.kpo_pct, cards.non_kpo_pct, cards.onsite_pct, cards.offshore_pct} :
            ~IsNaN(pct) /\ ZeroWhenNotPositive(cards.total, pct)
       /\ \A pct \in {cards.onsite_kpo_pct, cards.onsite_non_kpo_pct} :
            ~IsNaN(pct) /\ ZeroWhenNotPositive(cards.onsite, pct)
       /\ \A pct \in {cards.offshore_kpo_pct, cards.offshore_non_kpo_pct} :
            ~IsNaN(pct) /\ ZeroWhenNotPositive(cards.offshore, pct)
  /\ "growth" \in DOMAIN page.elements =>
       \A base \in DOMAIN page.elements["growth"] :
         LET g == page.elements["growth"][base] IN
         ~IsNaN(g.growth) /\ ZeroWhenNotPositive(g.first, g.growth)
  /\ "kpo_percentage" \in DOMAIN page.elements =>
       \A i \in DOMAIN page.elements["kpo_percentage"] :
         LET k == page.elements["kpo_percentage"][i] IN
         ~IsNaN(k.kpo_pct) /\ ZeroWhenNotPositive(k.total, k.kpo_pct)
  /\ "comparison" \in DOMAIN page.elements =>
       \A i \in DOMAIN page.elements["comparison"] :
         LET c == page.elements["comparison"][i] IN
         ~IsNaN(c.Pct_Difference) /\ ZeroWhenNotPositive(c.Total_HC, c.Pct_Difference)
  /\ metric_type = Fulfillment /\ "cards" \in DOMAIN page.elements =>
       LET cards == page.elements["cards"] IN
       ~IsNaN(cards.offshore_pct) /\ ZeroWhenNotPositive(cards.total, cards.offshore_pct)
  /\ "Fulfillment Rate" \in DOMAIN Grids =>
       \A i \in DOMAIN fulfillment_data :
         LET metrics == fulfillment_data[i].metrics
             kpo_val == Cell(Grids["Fulfillment Rate"], "KPO", QuarterLabel(fulfillment_data[i]))
         IN  "kpo_demands" \in DOMAIN metrics =>
               /\ ~IsNaN(kpo_val)
               /\ ZeroWhenNotPositive(Add(metrics["kpo_demands"].filled,
                                          metrics["kpo_demands"].open), kpo_val)
  /\ \A location \in {"onsite", "offshore"} :
       LET df == create_fulfillment_location_business_dataframe(fulfillment_data, location)
       IN  ~Raised(df) =>
             \A r \in DOMAIN df.value :
               /\ ~IsNaN(df.value[r].Fulfillment_Rate)
               /\ ZeroWhenNotPositive(Add(df.value[r].Filled, df.value[r].Open),
                                      df.value[r].Fulfillment_Rate)

\* growth shown as 0 from a first total of 0 to a positive last total, on
\* cards whose shares of a zero total are 0
C3_Witness ==
  /\ metric_type \in {HC, FTE}
  /\ "growth" \in DOMAIN page.elements
  /\ \E base \in DOMAIN page.elements["growth"] :
       LET g == page.elements["growth"][base] IN
       g.first = Zero /\ Positive(g.last) /\ g.growth = Zero
  /\ page.elements["cards"].total = Zero
  /\ page.elements["cards"].kpo_pct = Zero

(* C4: for a document of two or more snapshots, the QTD cell of every      *)
(* business row is that business's value in the last snapshot of the       *)
(* sequence minus its value in the second-to-last snapshot of the sequence, *)
(* by position in the sequence as given.                                   *)
C4_PositionalQTD ==
  \A t \in DOMAIN Grids :
    Len(view_data) >= 2 =>
      \A b \in Range(BusinessRows(Grids[t])) :
        LET values == ValuesOf(t, b)
            n == Len(values)
        IN  Cell(Grids[t], b, "QTD") = Sub(values[n], values[n - 1])

(* C5: a document of one snapshot gives QTD = 0 in every row of every      *)
(* enriched grid, the VRTU, KPO and VRTU Excl KPO rows included, in the     *)
(* HC / FTE and in the fulfillment grids.                                  *)
C5_SingleSnapshotQTD ==
  Len(view_data) = 1 =>
    \A t \in DOMAIN Grids : \A row \in Range(Grids[t].index) :
      Cell(Grids[t], row, "QTD") = Zero

\* the fulfillment grids of a one-snapshot document with positive cells
C5_Witness ==
  /\ metric_type = Fulfillment
  /\ Len(view_data) = 1
  /\ DOMAIN Grids = {OverallTables[i][1] : i \in DOMAIN OverallTables}
                      \cup {OnsiteTables[i][1] : i \in DOMAIN OnsiteTables}
                      \cup {OffshoreTables[i][1] : i \in DOMAIN OffshoreTables}
  /\ \A t \in {"Total Demands", "Onsite Total Demands", "Offshore Total Demands"} :
       /\ Positive(Cell(Grids[t], "HIL", Grids[t].columns[1]))
       /\ Cell(Grids[t], "HIL", "QTD") = Zero
  /\ Positive(Cell(Grids["Total Demands"], "KPO", Grids["Total Demands"].columns[1]))

(* C6: in every pivot grid the quarter columns are in the order in which   *)
(* the quarter labels first appear in the snapshot sequence (a grid exists  *)
(* only when the labels are pairwise distinct).                            *)
C6_ColumnsInSequenceOrder ==
  \A t \in DOMAIN Grids : QuarterColumns(Grids[t]) = SnapshotLabels

(* C7: in every pivot grid the business rows are in the order in which the  *)
(* businesses first appear in the flat records, the catalog order, and the  *)
(* summary rows follow them.                                               *)
C7_RowsInCatalogOrder ==
  \A t \in DOMAIN Grids :
    BusinessRows(Grids[t])
      = SelectSeq(businesses,
                  LAMBDA b : \E r \in DOMAIN GridFrame(t) : GridFrame(t)[r].Business = b)

(* C8: in every enriched grid QTD is the rightmost column and the last     *)
(* three rows are VRTU, KPO, VRTU Excl KPO in this order, for any snapshot  *)
(* sequence, a single snapshot included.                                   *)
C8_SummaryLayout ==
  \A t \in DOMAIN Grids :
    LET g == Grids[t]
        rows == Len(g.index)
    IN  /\ g.columns[Len(g.columns)] = "QTD"
        /\ \A i \in 1..(Len(g.columns) - 1) : g.columns[i] # "QTD"
        /\ rows >= 3
        /\ SubSeq(g.index, rows - 2, rows) = <<"VRTU", "KPO", "VRTU Excl KPO">>
        /\ \A i \in 1..(rows - 3) : g.index[i] \in Businesses

\* the three HC / FTE grids of a one-snapshot document, and those of a longer one
C8_Witness ==
  /\ metric_type \in {HC, FTE}
  /\ DOMAIN Grids = {"Overall", "Onsite", "Offshore"}
  /\ \/ Len(view_data) = 1 /\ Grids["Overall"].columns = <<SnapshotLabels[1], "QTD">>
     \/ Len(view_data) = MaxSnapshots /\ Len(Grids["Overall"].columns) = MaxSnapshots + 1
  /\ Len(Grids["Overall"].index) = NumBusinesses + 3

\* by_business of block `key` lacks business b in snapshot i of document d
Lacks(d, i, key, b) ==
  HasBlock(d[i], key, "by_business") /\ b \notin DOMAIN d[i].metrics[key].by_business

\* frame df was extracted, with value 0 in `field` wherever the block lacks the business
ZeroWhereLacking(df, d, key, field) ==
  /\ ~Raised(df)
  /\ \A r \in DOMAIN df.value :
       Lacks(d, RecordSnapshot(r), key, RecordBusiness(r)) => df.value[r][field] = Zero

(* C9: where a business of the catalog is absent from a by_business map,   *)
(* by-business extraction (HC, FTE, location-scoped, fulfillment) raises no *)
(* error and yields a flat record of value 0 for that snapshot and         *)
(* business.                                                               *)
C9_MissingBusinessIsZero ==
  /\ ZeroWhereLacking(create_business_dataframe(hc_data, "hc"),
                      hc_data, "total_billable_hc", "Total")
  /\ ZeroWhereLacking(create_business_dataframe(fte_data, "fte"),
                      fte_data, "total_billable_fte", "Total")
  /\ ZeroWhereLacking(create_location_business_dataframe(hc_data, "hc", "onsite"),
                      hc_data, "total_onsite_hc", "Total")
  /\ ZeroWhereLacking(create_location_business_dataframe(fte_data, "fte", "offshore"),
                      fte_data, "total_offshore_fte", "Total")
  /\ ZeroWhereLacking(create_fulfillment_business_dataframe(fulfillment_data),
                      fulfillment_data, "total_demands", "Total")
  /\ ZeroWhereLacking(create_fulfillment_location_business_dataframe(fulfillment_data, "onsite"),
                      fulfillment_data, "onsite_demands", "Total")

\* two snapshots of the document the view reads carry one quarter label
DuplicateLabels ==
  \E i, j \in DOMAIN view_data : i < j /\ SnapshotLabels[i] = SnapshotLabels[j]

(* C10: when the flat records hold two records of one (Business, Quarter)  *)
(* pair, as with two snapshots of one quarter label, pivoting ends in an    *)
(* error and the page shows no grid: neither record overwrites the other.  *)
C10_DuplicateCellIsAnError ==
  /\ metric_type \in {HC, FTE, Fulfillment}
  /\ "df_business" \in DOMAIN page.elements
  /\ DuplicateLabels
  => /\ page.error = "ValueError"
     /\ Grids = <<>>

\* a view of a document with a repeated label whose flat records were extracted
C10_Witness ==
  /\ DuplicateLabels
  /\ "df_business" \in DOMAIN page.elements
  /\ \E r1, r2 \in DOMAIN page.elements["df_business"] :
       /\ r1 < r2
       /\ page.elements["df_business"][r1].Business = page.elements["df_business"][r2].Business
       /\ page.elements["df_business"][r1].Quarter = page.elements["df_business"][r2].Quarter
       /\ page.elements["df_business"][r1] # page.elements["df_business"][r2]
  /\ page.error = "ValueError"

\* the KPO-scoped block of an HC / FTE table
ScopedKPOBlock(title) ==
  CASE title = "Overall"  -> "total_kpo_" \o metric_family
    [] title = "Onsite"   -> "onsite_kpo_" \o metric_family
    [] title = "Offshore" -> "offshore_kpo_" \o metric_family

(* C11: in the HC / FTE grids the KPO cell of each quarter is the total of  *)
(* that quarter's KPO-scoped block - total_kpo_<family> in the Overall      *)
(* table, onsite_kpo_<family> in the Onsite table, offshore_kpo_<family> in *)
(* the Offshore table - and not a sum of business rows.                    *)
C11_KPOFromScopedBlock ==
  metric_type \in {HC, FTE} =>
    \A t \in DOMAIN Grids : \A i \in DOMAIN view_data :
      Cell(Grids[t], "KPO", QuarterLabel(view_data[i]))
        = view_data[i].metrics[ScopedKPOBlock(t)].total

\* the three grids with three different positive KPO cells in one quarter,
\* none of them the sum of the business rows
C11_Witness ==
  /\ metric_type \in {HC, FTE}
  /\ DOMAIN Grids = {"Overall", "Onsite", "Offshore"}
  /\ \E q \in Range(QuarterColumns(Grids["Overall"])) :
       /\ Positive(Cell(Grids["Onsite"], "KPO", q))
       /\ Cell(Grids["Onsite"], "KPO", q) # Cell(Grids["Offshore"], "KPO", q)
       /\ Cell(Grids["Offshore"], "KPO", q) # Cell(Grids["Overall"], "KPO", q)
       /\ Cell(Grids["Overall"], "KPO", q) # Cell(Grids["Onsite"], "KPO", q)
       /\ \A t \in DOMAIN Grids : Cell(Grids[t], "KPO", q) # Cell(Grids[t], "VRTU", q)

\* the titles of the onsite fulfillment tables
OnsiteTitles == {OnsiteTables[i][1] : i \in DOMAIN OnsiteTables}

(* C12: in the fulfillment view every onsite pivot table (Onsite Total,     *)
(* Onsite Filled, Onsite Open) has a KPO row whose value is 0 in every      *)
(* quarter column.                                                         *)
C12_OnsiteKPOIsZero ==
  metric_type = Fulfillment =>
    \A t \in DOMAIN Grids \cap OnsiteTitles :
      \A q \in Range(QuarterColumns(Grids[t])) : Cell(Grids[t], "KPO", q) = Zero

\* the block whose by_business map holds a fulfillment metric
BlockOfField(field) ==
  CASE field = "Total"  -> "total_demands"
    [] field = "Filled" -> "filled_demands"
    [] field = "Open"   -> "open_demands"
    [] field = "Fulfillment_Rate" -> "fulfillment_rate"

\* the KPO value C13 expects of a snapshot for a metric
ExpectedKPO(quarter_data, field) ==
  LET metrics == quarter_data.metrics IN
  IF "kpo_demands" \in DOMAIN metrics
  THEN LET kpo == metrics["kpo_demands"] IN
       CASE field = "Total"  -> kpo.total
         [] field = "Filled" -> kpo.filled
         [] field = "Open"   -> kpo.open
         [] field = "Fulfillment_Rate" ->
              IF Positive(Add(kpo.filled, kpo.open))
              THEN Mul(Div(kpo.filled, Add(kpo.filled, kpo.open)), Num(100))
              ELSE Zero
  ELSE IF "TIME" \in DOMAIN metrics[BlockOfField(field)].by_business
       THEN metrics[BlockOfField(field)].by_business["TIME"]
       ELSE Zero

\* the snapshot with TIME taken out of every by_business map
WithoutTIME(quarter_data) ==
  [quarter_data EXCEPT !.metrics =
     [k \in DOMAIN quarter_data.metrics |->
        LET block == quarter_data.metrics[k] IN
        IF "by_business" \in DOMAIN block
        THEN [block EXCEPT !.by_business =
                [b \in DOMAIN block.by_business \ {"TIME"} |-> block.by_business[b]]]
        ELSE block]]

(* C13: in the overall and offshore fulfillment grids the KPO cell of a     *)
(* quarter is the value of that snapshot's kpo_demands block for the        *)
(* table's metric (total, filled, open; the rate of its filled and open in  *)
(* the Fulfillment Rate table) when the block is present, and otherwise the *)
(* TIME entry of the by_business map of the table's metric in that          *)
(* snapshot; the KPO value of a snapshot without the block and without a    *)
(* TIME entry is 0.                                                        *)
C13_KPOBlockOrTIME ==
  metric_type = Fulfillment =>
    /\ \A t \in DOMAIN Grids \ OnsiteTitles : \A i \in DOMAIN fulfillment_data :
         Cell(Grids[t], "KPO", QuarterLabel(fulfillment_data[i]))
           = ExpectedKPO(fulfillment_data[i], GridField(t))
    /\ \A i \in DOMAIN fulfillment_data :
         /\ "metrics" \in DOMAIN fulfillment_data[i]
         /\ "kpo_demands" \notin DOMAIN fulfillment_data[i].metrics
         => \A field \in {"Total", "Filled", "Open", "Fulfillment_Rate"} :
              FulfillmentKPOValue(WithoutTIME(fulfillment_data[i]), field) = Zero

\* overall and offshore grids over a snapshot without the block, whose KPO
\* cell is TIME's positive value, and a snapshot with the block, whose KPO
\* cell is the block's value and not TIME's
C13_Witness ==
  /\ metric_type = Fulfillment
  /\ {"Filled Demands", "Offshore Filled Demands"} \subseteq DOMAIN Grids
  /\ \E i, j \in DOMAIN fulfillment_data :
       LET without == fulfillment_data[i]
           with    == fulfillment_data[j]
       IN  /\ "kpo_demands" \notin DOMAIN without.metrics
           /\ "kpo_demands" \in DOMAIN with.metrics
           /\ \A t \in {"Filled Demands", "Offshore Filled Demands"} :
                /\ Cell(Grids[t], "KPO", QuarterLabel(without))
                     = without.metrics["filled_demands"].by_business["TIME"]
                /\ Positive(Cell(Grids[t], "KPO", QuarterLabel(without)))
                /\ Cell(Grids[t], "KPO", QuarterLabel(with)) = with.metrics["kpo_demands"].filled
                /\ Cell(Grids[t], "KPO", QuarterLabel(with))
                     # with.metrics["filled_demands"].by_business["TIME"]

(* C14: in every enriched grid with two or more quarter columns the QTD    *)
(* cell of the KPO row is the KPO row's cell in the grid's last quarter     *)
(* column minus its cell in the grid's second-to-last quarter column.       *)
C14_KPOQTDFromOwnRow ==
  \A t \in DOMAIN Grids :
    LET g  == Grids[t]
        qs == QuarterColumns(g)
        n  == Len(qs)
    IN  n >= 2 => Cell(g, "KPO", "QTD") = Sub(Cell(g, "KPO", qs[n]), Cell(g, "KPO", qs[n - 1]))

(* C15: in every enriched pivot grid the VRTU cell of each quarter column  *)
(* is the sum of that column over the business rows of the grid, the        *)
(* summary rows left out.                                                  *)
C15_VRTUIsColumnSum ==
  \A t \in DOMAIN Grids : \A q \in Range(QuarterColumns(Grids[t])) :
    LET rows == BusinessRows(Grids[t])
    IN  Cell(Grids[t], "VRTU", q) = SumSeq([i \in DOMAIN rows |-> Cell(Grids[t], rows[i], q)])

\* a grid of all six businesses with unequal positive cells in a quarter
\* column under a VRTU cell larger than each of them
C15_Witness ==
  \E t \in DOMAIN Grids : \E q \in Range(QuarterColumns(Grids[t])) :
    LET rows == BusinessRows(Grids[t]) IN
    /\ Len(rows) = NumBusinesses
    /\ \A i \in DOMAIN rows : Positive(Cell(Grids[t], rows[i], q))
    /\ \E i, j \in DOMAIN rows : Cell(Grids[t], rows[i], q) # Cell(Grids[t], rows[j], q)
    /\ \A i \in DOMAIN rows :
         Positive(Sub(Cell(Grids[t], "VRTU", q), Cell(Grids[t], rows[i], q)))

\* the labels of document d are pairwise distinct
DistinctLabels(d) ==
  \A i, j \in DOMAIN d : i < j => QuarterLabel(d[i]) # QuarterLabel(d[j])

\* the document without its last snapshot
Front(d) == SubSeq(d, 1, Len(d) - 1)

\* a grid was built, and in column q its VRTU Excl KPO cell is its VRTU cell
ExclKPOIsVRTU(grid, q) ==
  /\ ~Raised(grid)
  /\ Cell(grid.value, "VRTU Excl KPO", q) = Cell(grid.value, "VRTU", q)

\* the HC grid built from the records of the whole document and the KPO row
\* of the document without its last snapshot
EnhancedBuilderKeepsVRTU ==
  LET df == create_business_dataframe(hc_data, "hc") IN
  Len(hc_data) >= 2 /\ DistinctLabels(hc_data) /\ ~Raised(df) =>
    ExclKPOIsVRTU(create_enhanced_pivot_table(df.value, Front(hc_data), "hc", "Overall"),
                  QuarterLabel(hc_data[Len(hc_data)]))

\* the same for the fulfillment grid
FulfillmentBuilderKeepsVRTU ==
  LET df == create_fulfillment_business_dataframe(fulfillment_data) IN
  Len(fulfillment_data) >= 2 /\ DistinctLabels(fulfillment_data) /\ ~Raised(df) =>
    ExclKPOIsVRTU(create_fulfillment_pivot(df.value, "Total", "Total Demands",
                                           Front(fulfillment_data)),
                  QuarterLabel(fulfillment_data[Len(fulfillment_data)]))

LocationBlock(quarter_data, location) ==
  quarter_data.metrics[IF location = "onsite" THEN "onsite_demands" ELSE "offshore_demands"]

(* C17: in the location-scoped fulfillment breakdown the Filled and Open    *)
(* values of the record of a snapshot and a business are the entries of the *)
(* location block's filled_by_business and open_by_business maps.          *)
C17_LocationCountsFromSubMaps ==
  \A location \in {"onsite", "offshore"} :
    LET df == create_fulfillment_location_business_dataframe(fulfillment_data, location) IN
    ~Raised(df) =>
      \A r \in DOMAIN df.value :
        LET block == LocationBlock(fulfillment_data[RecordSnapshot(r)], location) IN
        /\ df.value[r].Filled = block.filled_by_business[RecordBusiness(r)]
        /\ df.value[r].Open = block.open_by_business[RecordBusiness(r)]

\* filled / (filled + open) x 100 of a record, 0 when filled + open is 0
RateOfCounts(rec) ==
  IF Add(rec.Filled, rec.Open) = Zero THEN Zero
  ELSE Mul(Div(rec.Filled, Add(rec.Filled, rec.Open)), Num(100))

\* every record of the frame reports the rate of its own counts
RatesOfOwnCounts(df) ==
  \A r \in DOMAIN df : df[r].Fulfillment_Rate = RateOfCounts(df[r])

\* the records by business and location report the rate of their own counts
LocationRatesOfOwnCounts ==
  \A location \in {"onsite", "offshore"} :
    LET df == create_fulfillment_location_business_dataframe(fulfillment_data, location)
    IN  ~Raised(df) => RatesOfOwnCounts(df.value)

(* C18: the fulfillment rate of every fulfillment record - per quarter, per *)
(* business, per business and location - is filled / (filled + open) x 100  *)
(* of the Filled and Open counts of the same record, and 0 when             *)
(* filled + open = 0.                                                      *)
C18_RateOfOwnCounts ==
  /\ metric_type = Fulfillment /\ "df_fulfillment" \in DOMAIN page.elements =>
       RatesOfOwnCounts(page.elements["df_fulfillment"])
  /\ metric_type = Fulfillment /\ "df_business" \in DOMAIN page.elements =>
       RatesOfOwnCounts(page.elements["df_business"])
  /\ LocationRatesOfOwnCounts

\* the total of block <base>_<family> in snapshot i of the document in view
ViewTotal(i, base) == view_data[i].metrics[base \o "_" \o metric_family].total

(* C19: the growth rates are computed between the first and the last        *)
(* snapshot of the sequence, by position, as (last - first) / first x 100;  *)
(* a document of fewer than 2 snapshots gives no growth metric at all; a    *)
(* first value of 0 gives growth 0.                                        *)
C19_GrowthFirstToLast ==
  metric_type \in {HC, FTE} /\ "growth" \in DOMAIN page.elements =>
    LET growth == page.elements["growth"]
        n == Len(view_data)
    IN  IF n < 2 THEN DOMAIN growth = {}
        ELSE /\ DOMAIN growth = GrowthBases
             /\ \A base \in GrowthBases :
                  LET first == ViewTotal(1, base)
                      last  == ViewTotal(n, base)
                  IN  /\ growth[base].first = first
                      /\ growth[base].last = last
                      /\ growth[base].growth =
                           IF first = Zero THEN Zero
                           ELSE Mul(Div(Sub(last, first), first), Num(100))

\* a document whose first snapshot carries the later label: growth from its
\* positive total to the smaller total of the last snapshot is negative
C19_Witness ==
  /\ metric_type \in {HC, FTE}
  /\ "growth" \in DOMAIN page.elements
  /\ Len(view_data) >= 2
  /\ StrLess(SnapshotLabels[Len(view_data)], SnapshotLabels[1])
  /\ Positive(ViewTotal(1, "total_billable"))
  /\ Positive(Sub(ViewTotal(1, "total_billable"), ViewTotal(Len(view_data), "total_billable")))
  /\ page.elements["growth"]["total_billable"].growth # Zero
  /\ ~Positive(page.elements["growth"]["total_billable"].growth)

\* a document of one snapshot, whose page shows no growth metric
C19_NoGrowthWitness ==
  /\ metric_type \in {HC, FTE}
  /\ Len(view_data) = 1
  /\ "growth" \in DOMAIN page.elements
  /\ DOMAIN page.elements["growth"] = {}
  /\ "tables" \in DOMAIN page.elements

\* the snapshots of the fulfillment document that have a 'metrics' object
WithMetrics ==
  SelectSeq(fulfillment_data, LAMBDA quarter_data : "metrics" \in DOMAIN quarter_data)

(* C20: when a snapshot of the fulfillment document has no `metrics`        *)
(* object, fulfillment extraction does not fail: it skips that snapshot and *)
(* produces the records of the other snapshots, one per snapshot in the     *)
(* per-quarter frame and one per snapshot and business in the by-business   *)
(* and the location frames.                                                *)
C20_SnapshotWithoutMetricsSkipped ==
  Len(WithMetrics) < Len(fulfillment_data) =>
    LET df_fulfillment == create_fulfillment_dataframe(fulfillment_data)
        df_business    == create_fulfillment_business_dataframe(fulfillment_data)
        df_onsite      == create_fulfillment_location_business_dataframe(fulfillment_data, "onsite")
    IN  /\ ~Raised(df_fulfillment)
        /\ df_fulfillment = create_fulfillment_dataframe(WithMetrics)
        /\ ~Raised(df_business)
        /\ df_business = create_fulfillment_business_dataframe(WithMetrics)
        /\ ~Raised(df_onsite)
        /\ df_onsite = create_fulfillment_location_business_dataframe(WithMetrics, "onsite")

\* the snapshots of a workforce document that lack one of the nine metrics
LackingMetric(data, metric_key) ==
  {i \in DOMAIN data : ~HasTotals(data[i], Range(WorkforceBases), metric_key)}

\* the snapshots that lack metric `base`
Lacking(data, base, metric_key) ==
  {i \in DOMAIN data : ~HasBlock(data[i], MetricKey(base, metric_key), "total")}

(* C21: on the HC / FTE path, when a snapshot lacks one of the nine         *)
(* top-level metrics, create_quarter_dataframe raises and returns no frame; *)
(* the by-business extraction raises when the block it reads is the one     *)
(* missing; the page of that family ends with the error before the trend    *)
(* frame and the tables, and no 0 stands in for the missing metric.         *)
C21_MissingMetricIsAnError ==
  /\ \A f \in {<<hc_data, "hc">>, <<fte_data, "fte">>} :
       /\ LackingMetric(f[1], f[2]) # {} =>
             /\ create_quarter_dataframe(f[1], f[2]) = KeyError
             /\ "value" \notin DOMAIN create_quarter_dataframe(f[1], f[2])
       /\ Lacking(f[1], "total_billable", f[2]) # {} =>
             create_business_dataframe(f[1], f[2]) = KeyError
       /\ Lacking(f[1], "total_onsite", f[2]) # {} =>
             create_location_business_dataframe(f[1], f[2], "onsite") = KeyError
       /\ Lacking(f[1], "total_offshore", f[2]) # {} =>
             create_location_business_dataframe(f[1], f[2], "offshore") = KeyError
  /\ metric_type \in {HC, FTE} /\ LackingMetric(view_data, metric_family) # {} =>
       /\ page.error = "KeyError"
       /\ "df_quarters" \notin DOMAIN page.elements
       /\ "tables" \notin DOMAIN page.elements

\* the FTE view of a document whose first snapshot lacks a metric the cards of
\* the selected last snapshot do not need: the cards are shown, then the error
C21_Witness ==
  /\ metric_type = FTE
  /\ LackingMetric(fte_data, "fte") = {1}
  /\ Lacking(fte_data, "onsite_kpo", "fte") = {1}
  /\ "cards" \in DOMAIN page.elements
  /\ "growth" \in DOMAIN page.elements
  /\ page.error = "KeyError"

\* the files the view of a metric type is computed from
FilesOf(mtype) ==
  CASE mtype = HC -> {"hc"}
    [] mtype = FTE -> {"fte"}
    [] mtype = Comparison -> {"hc", "fte"}
    [] mtype = Fulfillment -> {"fulfillment"}

(* C22: a load failure of one family's document aborts only that family's   *)
(* report: whenever the files of the selected view load, that view is       *)
(* computed and rendered, whatever happens to the other files.              *)
C22_LoadFailureIsolated ==
  FilesOf(metric_type) \cap unreadable = {} => page.view = metric_type

\* the views the 'Select Metric Type' radio offers
OfferedViews == Range(metric_options(fulfillment_data))

(* C23: whenever the documents load, the HC, FTE and comparison views are   *)
(* offered; the fulfillment view is not offered when the fulfillment        *)
(* document is absent, and it is offered when the document is present.      *)
C23_FulfillmentOptional ==
  ~LoadFails =>
    /\ {HC, FTE, Comparison} \subseteq OfferedViews
    /\ ~fulfillment_exists => Fulfillment \notin OfferedViews
    /\ fulfillment_exists => Fulfillment \in OfferedViews

\* the part of C23 about an absent document
C23_AbsentDocument ==
  ~LoadFails /\ ~fulfillment_exists =>
    /\ {HC, FTE, Comparison} \subseteq OfferedViews
    /\ Fulfillment \notin OfferedViews

\* the axes of the by-business extraction: the overall axis and the values of
\* `location`, 'remote' standing for any value other than 'onsite' and 'offshore'
Axes == {"overall", "onsite", "offshore", "remote"}

\* the block an axis reads, and the frame extracted for it
AxisBlock(axis, metric_key) ==
  MetricKey(CASE axis = "overall" -> "total_billable"
              [] axis = "onsite"  -> "total_onsite"
              [] OTHER            -> "total_offshore", metric_key)

AxisFrame(data, metric_key, axis) ==
  IF axis = "overall" THEN create_business_dataframe(data, metric_key)
  ELSE create_location_business_dataframe(data, metric_key, axis)

(* C24: for the HC and the FTE document and every axis whose block holds    *)
(* every catalog unit in every snapshot, the by-business extraction returns *)
(* 6 x n records for n snapshots: the record of snapshot i and catalog      *)
(* position j is number 6 * (i - 1) + j, carries the snapshot's label and   *)
(* the unit's name, and its value is the unit's figure in                   *)
(* total_billable_<family> for the overall axis, total_onsite_<family> for  *)
(* location 'onsite' and total_offshore_<family> for any other location.    *)
C24_OneRecordPerSnapshotAndBusiness ==
  \A f \in {<<hc_data, "hc">>, <<fte_data, "fte">>} : \A axis \in Axes :
    (\A i \in DOMAIN f[1] : HasAllBusinesses(f[1][i], AxisBlock(axis, f[2]), "by_business")) =>
      Bind(AxisFrame(f[1], f[2], axis), LAMBDA df :
        /\ ~Raised(df)
        /\ Len(df.value) = 6 * Len(f[1])
        /\ \A i \in DOMAIN f[1] : \A j \in 1..6 :
             df.value[6 * (i - 1) + j] =
               [Quarter  |-> QuarterLabel(f[1][i]),
                Business |-> businesses[j],
                Total    |-> f[1][i].metrics[AxisBlock(axis, f[2])].by_business[businesses[j]]])

\* the FTE view of two snapshots whose onsite and offshore figures differ, with
\* the twelve records of the overall axis on the page and the tables built
C24_Witness ==
  /\ metric_type = FTE
  /\ Len(fte_data) = 2
  /\ "tables" \in DOMAIN page.elements
  /\ DOMAIN page.elements["tables"] = {"Overall", "Onsite", "Offshore"}
  /\ Len(page.elements["df_business"]) = 12
  /\ \E i \in 1..2 :
       fte_data[i].metrics["total_onsite_fte"].by_business["TIME"]
         # fte_data[i].metrics["total_offshore_fte"].by_business["TIME"]

\* the objects main() passes to the builders of the current view: the
\* snapshot sequence, then the frame of the overall, the onsite and the
\* offshore grids
BuilderInputs ==
  IF metric_type \in {HC, FTE}
  THEN <<view_data, GridFrame("Overall"), GridFrame("Onsite"), GridFrame("Offshore")>>
  ELSE <<view_data, GridFrame("Total Demands"), GridFrame("Onsite Total Demands"),
         GridFrame("Offshore Total Demands")>>

\* the builder calls of the current view in page order
BuilderCalls ==
  IF metric_type \in {HC, FTE}
  THEN [i \in 1..3 |->
          [builder |-> "create_enhanced_pivot_table", df |-> i + 1, data_source |-> 1,
           metric |-> metric_family, title |-> <<"Overall", "Onsite", "Offshore">>[i]]]
  ELSE Bind(OverallTables \o OnsiteTables \o OffshoreTables, LAMBDA specs :
         [i \in DOMAIN specs |->
            [builder |-> "create_fulfillment_pivot",
             df |-> IF i <= 4 THEN 2 ELSE IF i <= 7 THEN 3 ELSE 4, data_source |-> 1,
             metric |-> specs[i][2], title |-> specs[i][1]]])

\* main() reached the builders: every frame was extracted
BuildersReached ==
  /\ page.view \in {HC, FTE, Fulfillment}
  /\ "tables" \in DOMAIN page.elements
  /\ IF metric_type \in {HC, FTE}
     THEN /\ ~Raised(create_business_dataframe(view_data, metric_family))
          /\ ~Raised(create_location_business_dataframe(view_data, metric_family, "onsite"))
          /\ ~Raised(create_location_business_dataframe(view_data, metric_family, "offshore"))
     ELSE /\ ~Raised(create_fulfillment_location_business_dataframe(view_data, "onsite"))
          /\ ~Raised(create_fulfillment_location_business_dataframe(view_data, "offshore"))

(* C25: the builder calls of a page leave the snapshot sequence and the     *)
(* flat-record frames as they were, whether or not a call raises; the grids *)
(* are those the page shows; and the same calls made in the reverse order   *)
(* leave the same inputs and give each title the same grid.                 *)
C25_BuildersLeaveInputs ==
  BuildersReached =>
    Bind(CallsUpTo(BuilderInputs, BuilderCalls, Len(BuilderCalls)), LAMBDA forward :
    Bind(CallsUpTo(BuilderInputs, Reverse(BuilderCalls), Len(BuilderCalls)), LAMBDA backward :
      /\ SubSeq(forward.heap, 1, 4) = BuilderInputs
      /\ SubSeq(backward.heap, 1, 4) = BuilderInputs
      /\ forward.raised = page.error
      /\ DOMAIN forward.grids = DOMAIN Grids
      /\ \A t \in DOMAIN Grids : forward.heap[forward.grids[t]] = Grids[t]
      /\ forward.raised = "none" =>
           /\ backward.raised = "none"
           /\ \A t \in DOMAIN Grids : backward.heap[backward.grids[t]] = Grids[t]))

\* a fulfillment page of two quarters whose ten grids were built, four of
\* them from the same by-business frame
C25_Witness ==
  /\ metric_type = Fulfillment
  /\ BuildersReached
  /\ page.error = "none"
  /\ Cardinality(DOMAIN Grids) = 10
  /\ Len(Grids["Total Demands"].columns) = 3
  /\ Len(GridFrame("Total Demands")) = 12

\* the pivot grids of a page, by title
GridsOf(p) == IF "tables" \in DOMAIN p.elements THEN p.elements["tables"] ELSE <<>>

\* the grids of the current view under business filter b
GridsUnderFilter(b) == GridsOf(Rerun(metric_type, selected_quarter, b))

(* C26: for the documents and the view of the state, the detailed pivot     *)
(* grids are the same under every value of 'Filter by Business', in the     *)
(* HC / FTE view and in the fulfillment view alike.                         *)
C26_GridsIndependentOfFilter ==
  \A b \in FilterChoices : GridsUnderFilter(b) = Grids

\* the part of C26 about the HC / FTE view
C26_WorkforceGridsIndependentOfFilter ==
  metric_type \in {HC, FTE} => \A b \in FilterChoices : GridsUnderFilter(b) = Grids

\* the location records of snapshot i and business b: the onsite and the offshore one
LocationRecord(location, i, b) ==
  Bind(create_fulfillment_location_business_dataframe(fulfillment_data, location).value,
       LAMBDA df : df[CHOOSE r \in DOMAIN df : RecordSnapshot(r) = i /\ RecordBusiness(r) = b])

\* a <= b for whole numbers
AtMost(a, b) == a[1] <= b[1]

\* the two location shares of a count add up to the count or to one less
SplitOf(onsite_share, offshore_share, count) ==
  /\ onsite_share[2] = 1 /\ offshore_share[2] = 1
  /\ AtMost(Zero, onsite_share) /\ AtMost(Zero, offshore_share)
  /\ AtMost(Add(onsite_share, offshore_share), count)
  /\ AtMost(Sub(count, Num(1)), Add(onsite_share, offshore_share))

\* the snapshots whose four by_business maps and location maps are complete
Prorated(i) ==
  \A key \in {"total_demands", "filled_demands", "open_demands",
               "onsite_demands", "offshore_demands"} :
    HasAllBusinesses(fulfillment_data[i], key, "by_business")

NumPairs == IF Len(hc_data) < Len(fte_data) THEN Len(hc_data) ELSE Len(fte_data)

(* C28: when the paired snapshots hold their totals, the comparison has     *)
(* exactly min(len(hc), len(fte)) rows; row i carries the quarter label of  *)
(* hc[i], the HC total of hc[i], the FTE total of fte[i] and their          *)
(* difference, whatever the fiscal year and quarter of fte[i]; and the      *)
(* comparison view shows these rows.                                        *)
C28_ComparisonPairsByPosition ==
  (\A i \in 1..NumPairs : /\ HasBlock(hc_data[i], "total_billable_hc", "total")
                           /\ HasBlock(fte_data[i], "total_billable_fte", "total")) =>
    Bind(comparison_records(hc_data, fte_data), LAMBDA records :
      /\ ~Raised(records)
      /\ Len(records.value) = NumPairs
      /\ \A i \in 1..NumPairs :
           /\ records.value[i].Quarter = QuarterLabel(hc_data[i])
           /\ records.value[i].Total_HC = hc_data[i].metrics["total_billable_hc"].total
           /\ records.value[i].Total_FTE = fte_data[i].metrics["total_billable_fte"].total
           /\ records.value[i].Difference =
                Sub(hc_data[i].metrics["total_billable_hc"].total,
                    fte_data[i].metrics["total_billable_fte"].total)
      /\ metric_type = Comparison /\ page.view = Comparison =>
           /\ page.error = "none"
           /\ page.elements["comparison"] = records.value)

\* the comparison view of two HC snapshots and one FTE snapshot of another
\* quarter: one row, labelled with the HC quarter, with a difference
C28_Witness ==
  /\ metric_type = Comparison
  /\ page.view = Comparison
  /\ Len(hc_data) = 2
  /\ Len(fte_data) = 1
  /\ QuarterLabel(hc_data[1]) # QuarterLabel(fte_data[1])
  /\ Len(page.elements["comparison"]) = 1
  /\ page.elements["comparison"][1].Quarter = QuarterLabel(hc_data[1])
  /\ Positive(page.elements["comparison"][1].Difference)

\* the metric cards of a snapshot of the current view
CardsOf(quarter_data) ==
  IF metric_type = Fulfillment THEN display_fulfillment_metrics_cards(quarter_data)
  ELSE display_metrics_cards(quarter_data, metric_family)

\* the quarter selectbox of the current view stands at its default, the last option
AtDefaultQuarter ==
  /\ metric_type \in {HC, FTE, Fulfillment}
  /\ page.view = metric_type
  /\ Truthy(view_data)
  /\ selected_quarter = SnapshotLabels[Len(view_data)]

(* C29: with the quarter selectbox at its default, the metric cards of the  *)
(* HC, FTE and fulfillment views are those of the last snapshot of the      *)
(* view's document.                                                        *)
C29_DefaultShowsLastSnapshot ==
  AtDefaultQuarter /\ "cards" \in DOMAIN page.elements =>
    page.elements["cards"] = CardsOf(view_data[Len(view_data)]).value

\* C29 for the documents whose snapshots carry distinct quarter labels
C29_DistinctLabelsShowLastSnapshot ==
  /\ AtDefaultQuarter
  /\ "cards" \in DOMAIN page.elements
  /\ Cardinality(Range(SnapshotLabels)) = Len(view_data)
  => page.elements["cards"] = CardsOf(view_data[Len(view_data)]).value

====
